---- MODULE Spec2Model ----
(***************************************************************************)
(* Model of the content-management dashboard: the application root (App:   *)
(* session gate, navigation state, view router) and the screens that talk  *)
(* to the hosted backend (ProjectManager, PageEditor).                     *)
(*                                                                         *)
(* JavaScript values: null, undefined and the empty string are three       *)
(* distinct values that are all falsy; every identifier of the backend is  *)
(* a non-empty string.                                                     *)
(***************************************************************************)
EXTENDS Integers, Sequences, FiniteSets, TLC

\* ------------------------------------------------------------------------
\* Values
\* ------------------------------------------------------------------------
Null == "<null>"
Undefined == "<undefined>"
Empty == ""

\* the View union type of App
Views == {"dashboard", "editor", "projects", "templates", "analytics", "settings"}

\* JavaScript truthiness of a string-or-null-or-undefined value
Truthy(x) == x \notin {Null, Undefined, Empty}

\* JavaScript a || b
OrElse(a, b) == IF Truthy(a) THEN a ELSE b

\* JavaScript a ?? b
Coalesce(a, b) == IF a \in {Null, Undefined} THEN b ELSE a

\* ------------------------------------------------------------------------
\* Bounds
\* ------------------------------------------------------------------------
\* number of distinct project ids, and of page ids, the navigation contract
\* is exercised with
MaxNavIds == 2
\* number of distinct user identities
MaxUsers == 1
\* number of project ids the backend generates, the initial project included
MaxProjects == 2
\* number of page ids the backend generates, the initial pages included
MaxPages == 4
\* number of pages of the initial project
MaxInitPages == 2
\* number of screen operations, and of timers, in flight at a time
MaxInFlight == 2
\* number of session changes
MaxAuthEvents == 2
\* number of steps of the whole application from one of its starting points
MaxSteps == 7
\* number of steps of the navigation calls from one of their starting points
MaxRouteSteps == 7
\* number of steps of the session and the layout from the start of App
MaxSessionSteps == 12
\* number of steps of the page list from the mount of PageEditor
MaxPageSteps == 16
\* projects the backend holds when the Dashboard is looked at on its own
MaxDashProjects == 6
\* steps of a run that starts at a fresh Dashboard
MaxDashSteps == 5
\* steps of a run that starts at a fresh Sidebar
MaxSidebarSteps == 6
\* length of the content the markdown editor starts with
MaxLen == 3
\* steps of a run of the markdown editor
MaxMarkdownSteps == 2

\* identifiers as the backend generates them: non-empty strings
ProjectId(n) == "p" \o ToString(n)
PageId(n) == "g" \o ToString(n)
UserId(n) == "u" \o ToString(n)

NavProjects == {ProjectId(n) : n \in 1..MaxNavIds}
NavPages == {PageId(n) : n \in 1..MaxNavIds}
Users == {UserId(n) : n \in 1..MaxUsers}

\* ------------------------------------------------------------------------
\* State
\* ------------------------------------------------------------------------
VARIABLES
    appState,   \* App: {currentView, selectedProjectId, selectedPageId, user}
    navTick,    \* history: flips at every call of navigateToView
    lastCall,   \* history: arguments of the most recent navigateToView call
    before,     \* history: appState just before the most recent call
    given,      \* history: most recently passed non-absent projectId / pageId
    named,      \* history: most recently passed non-absent, non-empty projectId / pageId
    repeated,   \* history: the most recent call repeated the arguments of the one before it
    authSession,    \* backend: identity of the current session, or Null
    sessionQuery,   \* App: the getSession() request of the mount effect
    authEvents,     \* backend -> App: session-change notifications not yet delivered
    authCount,      \* number of session changes so far
    dbProjects,     \* backend: rows of table projects
    dbPages,        \* backend: rows of table pages
    nextProject,    \* backend: number of project ids generated
    nextPage,       \* backend: number of page ids generated
    mounted,        \* components in the tree of the last render
    pm,             \* ProjectManager: component state
    ed,             \* PageEditor: component state
    dash,           \* Dashboard: component state and its loadDashboardData
    sb,             \* Sidebar: component state and its loadProjects
    reqs,           \* asynchronous operations of the screens awaiting a backend answer
    timers,         \* pending setTimeout callbacks
    textarea,       \* MarkdownEditor: selection of its textarea and pending restores of it
    toast,          \* the most recent notification
    lastOp,         \* history: outcome of the most recently finished screen operation
    steps           \* steps left, or NotCounted

navVars == <<appState, navTick>>
histVars == <<lastCall, before, given, named, repeated>>
authVars == <<authSession, sessionQuery, authEvents, authCount>>
dbVars == <<dbProjects, dbPages, nextProject, nextPage>>
uiVars == <<mounted, pm, ed, dash, sb, reqs, timers, textarea, toast, lastOp>>
vars == <<appState, navTick, lastCall, before, given, named, repeated,
          authSession, sessionQuery, authEvents, authCount,
          dbProjects, dbPages, nextProject, nextPage,
          mounted, pm, ed, dash, sb, reqs, timers, textarea, toast, lastOp, steps>>

\* useState initial value of App
InitialAppState ==
    [currentView |-> "dashboard",
     selectedProjectId |-> Null,
     selectedPageId |-> Null,
     user |-> Null]

NoCall == [view |-> "<none>", projectId |-> Undefined, pageId |-> Undefined]

\* ------------------------------------------------------------------------
\* App.navigateToView
\* ------------------------------------------------------------------------
\* slip: the selection is overwritten, not merged
NavigateToOverwrite(prev, view, projectId, pageId) ==
    [prev EXCEPT !.currentView = view,
                 !.selectedProjectId = Coalesce(projectId, Null),
                 !.selectedPageId = Coalesce(pageId, Null)]

\* slip: going to the dashboard clears the selection
NavigateToClearOnDashboard(prev, view, projectId, pageId) ==
    [prev EXCEPT !.currentView = view,
                 !.selectedProjectId = IF view = "dashboard" THEN Null
                                       ELSE OrElse(projectId, prev.selectedProjectId),
                 !.selectedPageId = IF view = "dashboard" THEN Null
                                    ELSE OrElse(pageId, prev.selectedPageId)]

\* slip: the page selection falls back to the project selection
NavigateToWrongFallback(prev, view, projectId, pageId) ==
    [prev EXCEPT !.currentView = view,
                 !.selectedProjectId = OrElse(projectId, prev.selectedProjectId),
                 !.selectedPageId = OrElse(pageId, prev.selectedProjectId)]

NavigateTo(prev, view, projectId, pageId) ==
    [prev EXCEPT !.currentView = view,
                 !.selectedProjectId = OrElse(projectId, prev.selectedProjectId),
                 !.selectedPageId = OrElse(pageId, prev.selectedPageId)]

\* the state update of one navigateToView call
navigateToView(view, projectId, pageId) ==
    /\ appState' = NavigateTo(appState, view, projectId, pageId)
    /\ navTick' = ~navTick

\* ------------------------------------------------------------------------
\* Backend tables
\* ------------------------------------------------------------------------
NoProject == [id |-> Null]
NoPage == [id |-> Null]

PagesOf(pages, projectId) == {p \in pages : p.project_id = projectId}

Min(S) == CHOOSE x \in S : \A y \in S : x <= y

\* the sequences that list every element of S once
Perms(S) ==
    {f \in [1..Cardinality(S) -> S] : \A x \in S : \E i \in 1..Cardinality(S) : f[i] = x}

\* .order('order_index', { ascending: true }): rows with equal keys in any order
OrderedByIndex(S) ==
    {f \in Perms(S) : \A i, j \in 1..Cardinality(S) : i < j => f[i].order_index <= f[j].order_index}

\* .order('created_at', { ascending: false })
NewestFirst(S) ==
    CHOOSE f \in Perms(S) : \A i, j \in 1..Cardinality(S) : i < j => f[i].created_at > f[j].created_at

\* .order('updated_at', { ascending: false }): no row of the tables modelled
\* here is updated after its insert, its updated_at is its creation time
RECURSIVE ByUpdatedAt(_)
ByUpdatedAt(S) ==
    IF S = {} THEN <<>>
    ELSE LET newest == CHOOSE p \in S : \A q \in S : q.created_at <= p.created_at
         IN  <<newest>> \o ByUpdatedAt(S \ {newest})

\* the page map Sidebar.loadProjects builds from the answers of its page fetches
PagesMap(results) ==
    {[projectId |-> r.projectId, pages |-> r.pages] : r \in results}

\* String.prototype.trim on the names the forms are filled with
Blank == "  "
Trim(s) == IF s \in {Empty, Blank} THEN Empty ELSE s

\* ------------------------------------------------------------------------
\* App: render
\* ------------------------------------------------------------------------
Layout == {"DashboardLayout", "Header", "Sidebar", "Toaster"}
Screens == {"Dashboard", "ProjectManager", "PageEditor"}

\* renderView: the screen component of a view
ScreenOf(view) ==
    CASE view = "dashboard" -> {"Dashboard"}
      [] view = "editor" -> {"PageEditor"}
      [] view = "projects" -> {"ProjectManager"}
      [] view \in {"templates", "analytics", "settings"} -> {}
      [] OTHER -> {"Dashboard"}

\* slip: the screens are rendered without a user
RenderUngated(app) ==
    IF ~Truthy(app.user) THEN {"AuthForm"} \cup ScreenOf(app.currentView)
    ELSE Layout \cup ScreenOf(app.currentView)

\* the components App returns
Render(app) ==
    IF ~Truthy(app.user) THEN {"AuthForm"}
    ELSE Layout \cup ScreenOf(app.currentView)

\* ------------------------------------------------------------------------
\* Component state
\* ------------------------------------------------------------------------
\* useState initial values of ProjectManager
InitialPM ==
    [projects |-> <<>>,
     loading |-> TRUE,
     showNewProjectDialog |-> FALSE,
     newProject |-> [name |-> Empty]]

EmptyPageData ==
    [title |-> Empty, slug |-> Empty, content |-> Empty,
     metaDescription |-> Empty, metaKeywords |-> Empty, isPublished |-> FALSE]

\* useState initial values of PageEditor
InitialEd ==
    [project |-> NoProject,
     currentPage |-> NoPage,
     pages |-> <<>>,
     loading |-> TRUE,
     saving |-> FALSE,
     showNewPageDialog |-> FALSE,
     newPageTitle |-> Empty,
     pageData |-> EmptyPageData]

NoStats ==
    [totalProjects |-> 0, publishedSites |-> 0, totalViews |-> 0, activeUsers |-> 0]

\* useState initial values of Dashboard, its loadDashboardData on its way;
\* projectsData is the answer of the first select, held by the running call
InitialDash ==
    [projects |-> <<>>,
     stats |-> NoStats,
     loading |-> TRUE,
     pc |-> "projects",
     projectsData |-> <<>>]

\* Dashboard is not in the tree
NoDash == [InitialDash EXCEPT !.pc = "none"]

\* useState initial values of Sidebar, its loadProjects on its way; pending
\* and results are the page fetches Promise.all waits for and their answers
InitialSb ==
    [projects |-> <<>>,
     projectPages |-> {},
     expandedProjects |-> {},
     pc |-> "projects",
     pending |-> {},
     results |-> {}]

\* Sidebar is not in the tree
NoSb == [InitialSb EXCEPT !.pc = "none"]

\* Sidebar: the effect that expands the selected project
ExpandEffect(s, app) ==
    IF Truthy(app.selectedProjectId) /\ app.selectedProjectId \notin s.expandedProjects
    THEN [s EXCEPT !.expandedProjects = s.expandedProjects \cup {app.selectedProjectId}]
    ELSE s

\* the edit buffer the page-selection effect fills from a page
FromPage(page) ==
    [title |-> page.title,
     slug |-> page.slug,
     content |-> OrElse(page.content, Empty),
     metaDescription |-> OrElse(page.meta_description, Empty),
     metaKeywords |-> OrElse(page.meta_keywords, Empty),
     isPublished |-> page.is_published]

\* slip: without a selected page the effect takes the last page of the list
PageEffectLastPage(e, app) ==
    LET pageId == app.selectedPageId
        projectId == app.selectedProjectId
        found == {i \in 1..Len(e.pages) : e.pages[i].id = pageId}
    IN  IF Truthy(pageId) /\ Len(e.pages) > 0
        THEN IF found # {}
             THEN LET page == e.pages[Min(found)]
                  IN  [ed |-> [e EXCEPT !.currentPage = page, !.pageData = FromPage(page)],
                       app |-> app, nav |-> FALSE]
             ELSE [ed |-> e, app |-> app, nav |-> FALSE]
        ELSE IF Len(e.pages) > 0 /\ ~Truthy(pageId)
        THEN LET lastPage == e.pages[Len(e.pages)]
             IN  [ed |-> [e EXCEPT !.currentPage = lastPage, !.pageData = FromPage(lastPage)],
                  app |-> NavigateTo(app, "editor", projectId, lastPage.id),
                  nav |-> TRUE]
        ELSE [ed |-> e, app |-> app, nav |-> FALSE]

\* PageEditor: the page-selection effect, run in a render with props from app
PageEffect(e, app) ==
    LET pageId == app.selectedPageId
        projectId == app.selectedProjectId
        found == {i \in 1..Len(e.pages) : e.pages[i].id = pageId}
    IN  IF Truthy(pageId) /\ Len(e.pages) > 0
        THEN IF found # {}
             THEN LET page == e.pages[Min(found)]
                  IN  [ed |-> [e EXCEPT !.currentPage = page, !.pageData = FromPage(page)],
                       app |-> app, nav |-> FALSE]
             ELSE [ed |-> e, app |-> app, nav |-> FALSE]
        ELSE IF Len(e.pages) > 0 /\ ~Truthy(pageId)
        THEN LET firstPage == e.pages[1]
             IN  [ed |-> [e EXCEPT !.currentPage = firstPage, !.pageData = FromPage(firstPage)],
                  app |-> NavigateTo(app, "editor", projectId, firstPage.id),
                  nav |-> TRUE]
        ELSE [ed |-> e, app |-> app, nav |-> FALSE]

\* operations of a component that has left the tree: their state updates are dropped
Orphan(rs, comp) ==
    [i \in 1..Len(rs) |-> IF rs[i].comp = comp THEN [rs[i] EXCEPT !.orphan = TRUE] ELSE rs[i]]

\* React after a handler: app1, pm1, ed1 are the states the handler has set,
\* appSet tells that setAppState was called (App renders again and hands a new
\* navigateToView to its children), pagesSet that PageEditor's setPages was.
\* Components that leave the tree lose their state, components that enter it
\* start from their initial state and run their mount effects; PageEditor
\* runs loadProject when projectId changed and the page-selection effect when
\* one of pageId, pages, projectId, onNavigate changed.
Rerender(app1, pm1, ed1, reqs1, timers1, appSet, pagesSet) ==
    LET shown == Render(app1)
        pmOn == "ProjectManager" \in shown
        pmWas == "ProjectManager" \in mounted
        edOn == "PageEditor" \in shown
        edWas == "PageEditor" \in mounted
        reqsA == IF pmWas /\ ~pmOn THEN Orphan(reqs1, "pm") ELSE reqs1
        reqsB == IF pmOn /\ ~pmWas
                 THEN Append(reqsA, [comp |-> "pm", op |-> "loadProjects", orphan |-> FALSE])
                 ELSE reqsA
        reqsC == IF edWas /\ ~edOn THEN Orphan(reqsB, "ed") ELSE reqsB
        edBase == IF edOn /\ edWas THEN ed1 ELSE InitialEd
        startLoad == /\ edOn
                     /\ ~edWas \/ app1.selectedProjectId # appState.selectedProjectId
                     /\ Truthy(app1.selectedProjectId)
        edL == IF startLoad THEN [edBase EXCEPT !.loading = TRUE] ELSE edBase
        reqsD == IF startLoad
                 THEN Append(reqsC, [comp |-> "ed", op |-> "loadProject", pc |-> "project",
                                     projectId |-> app1.selectedProjectId,
                                     projectAtStart |-> edBase.project, orphan |-> FALSE])
                 ELSE reqsC
        runEffect == edOn /\ (~edWas \/ appSet \/ pagesSet)
        eff == IF runEffect THEN PageEffect(edL, app1)
               ELSE [ed |-> edL, app |-> app1, nav |-> FALSE]
        eff2 == IF eff.nav THEN PageEffect(eff.ed, eff.app) ELSE eff
        dashOn == "Dashboard" \in shown
        sbOn == "Sidebar" \in shown
    IN  [app |-> eff2.app,
         pm |-> IF pmOn /\ pmWas THEN pm1 ELSE InitialPM,
         ed |-> eff2.ed,
         dash |-> IF ~dashOn THEN NoDash
                  ELSE IF "Dashboard" \in mounted THEN dash ELSE InitialDash,
         sb |-> IF ~sbOn THEN NoSb
                ELSE ExpandEffect(IF "Sidebar" \in mounted THEN sb ELSE InitialSb, eff2.app),
         reqs |-> reqsD,
         timers |-> IF edWas /\ ~edOn THEN Orphan(timers1, "ed") ELSE timers1,
         nav |-> eff.nav]

\* a step is taken
NotCounted == 0 - 1
Step == steps # 0 /\ steps' = IF steps > 0 THEN steps - 1 ELSE steps

\* the textarea of MarkdownEditor is in the document
TextareaShown(app, e) ==
    /\ "PageEditor" \in Render(app)
    /\ ~e.loading
    /\ e.project.id # Null
    /\ Len(e.pages) > 0
    /\ e.currentPage.id # Null

\* no textarea, or a new one
NoSelection == [selectionStart |-> 0, selectionEnd |-> 0, pending |-> <<>>]

\* the textarea after a render with content prop c: a value that differs from
\* the one it holds is written into it, which puts the cursor at its end
AfterRender(t, app, e) ==
    IF ~TextareaShown(app, e) THEN NoSelection
    ELSE IF e.pageData.content # ed.pageData.content
    THEN [t EXCEPT !.selectionStart = Len(e.pageData.content),
                   !.selectionEnd = Len(e.pageData.content)]
    ELSE t

\* the step of a handler whose updates React has turned into r and that
\* leaves the textarea as t; called tells that the handler itself called
\* navigateToView
CommitWith(r, called, t) ==
    /\ Step
    /\ textarea' = AfterRender(t, r.app, r.ed)
    /\ Len(r.reqs) + Len(r.timers) <= MaxInFlight
    /\ appState' = r.app
    /\ navTick' = IF called \/ r.nav THEN ~navTick ELSE navTick
    /\ mounted' = Render(r.app)
    /\ pm' = r.pm
    /\ ed' = r.ed
    /\ dash' = r.dash
    /\ sb' = r.sb
    /\ reqs' = r.reqs
    /\ timers' = r.timers

\* the step of a handler that does not touch the textarea
Commit(r, called) == CommitWith(r, called, textarea)

\* a handler that leaves appState alone
CommitLocal(pm1, ed1, reqs1, timers1, pagesSet) ==
    Commit(Rerender(appState, pm1, ed1, reqs1, timers1, FALSE, pagesSet), FALSE)

\* a handler that calls navigateToView(view, projectId, pageId) last
CommitNavigate(view, projectId, pageId, pm1, ed1, reqs1, timers1, pagesSet) ==
    Commit(Rerender(NavigateTo(appState, view, projectId, pageId),
                    pm1, ed1, reqs1, timers1, TRUE, pagesSet), TRUE)

Without(rs, i) == SubSeq(rs, 1, i - 1) \o SubSeq(rs, i + 1, Len(rs))

NoToast == [kind |-> "none", msg |-> Empty]

\* toast.error(msg), toast.success(msg)
Notify(kind, msg) == toast' = [kind |-> kind, msg |-> msg]

\* ------------------------------------------------------------------------
\* ProjectManager
\* ------------------------------------------------------------------------
PMShown == "ProjectManager" \in mounted /\ ~pm.loading

NoOp == [op |-> "none", result |-> "none"]

\* history: a screen operation has ended with outcome rec
Done(rec) == lastOp' = rec

\* the rows of a project and of its pages
RowsOf(projectId) ==
    [project |-> {p \in dbProjects : p.id = projectId},
     pages |-> PagesOf(dbPages, projectId)]

\* an operation ends in its catch block
Fail(i, op, msg) ==
    /\ Notify("error", msg)
    /\ Done([op |-> op, result |-> "error"])
    /\ CommitLocal(pm, ed, Without(reqs, i), timers, FALSE)

\* loadProjects, from the answer on (Rerender sends the request at mount)
LoadProjectsResolve(i, ok) ==
    /\ i \in 1..Len(reqs)
    /\ reqs[i].op = "loadProjects" /\ reqs[i].comp = "pm"
    /\ LET pm1 == IF reqs[i].orphan THEN pm
                  ELSE IF ok THEN [pm EXCEPT !.projects = NewestFirst(dbProjects), !.loading = FALSE]
                  ELSE [pm EXCEPT !.loading = FALSE]
       IN  /\ IF ok THEN UNCHANGED toast ELSE Notify("error", "Failed to load projects")
           /\ Done([op |-> "loadProjects", result |-> IF ok THEN "success" ELSE "error"])
           /\ CommitLocal(pm1, ed, Without(reqs, i), timers, FALSE)
    /\ UNCHANGED <<dbVars, authVars, histVars>>

\* the New Project button and the dialog's onOpenChange
SetShowNewProjectDialog(open) ==
    /\ PMShown
    /\ pm.showNewProjectDialog # open
    /\ CommitLocal([pm EXCEPT !.showNewProjectDialog = open], ed, reqs, timers, FALSE)
    /\ UNCHANGED <<toast, lastOp, dbVars, authVars, histVars>>

\* typing into the name field of the dialog
SetNewProjectName(name) ==
    /\ PMShown
    /\ pm.showNewProjectDialog
    /\ pm.newProject.name # name
    /\ CommitLocal([pm EXCEPT !.newProject.name = name], ed, reqs, timers, FALSE)
    /\ UNCHANGED <<toast, lastOp, dbVars, authVars, histVars>>

\* createProject, up to the first await
CreateProject ==
    /\ PMShown
    /\ pm.showNewProjectDialog
    /\ IF Trim(pm.newProject.name) = Empty
       THEN /\ Notify("error", "Project name is required")
            /\ Done([op |-> "createProject", result |-> "rejected"])
            /\ CommitLocal(pm, ed, reqs, timers, FALSE)
       ELSE /\ CommitLocal(pm, ed,
                           Append(reqs, [comp |-> "pm", op |-> "createProject", pc |-> "getUser",
                                         newProject |-> pm.newProject, user |-> Null,
                                         data |-> NoProject, orphan |-> FALSE]),
                           timers, FALSE)
            /\ UNCHANGED <<toast, lastOp>>
    /\ UNCHANGED <<dbVars, authVars, histVars>>

\* createProject: supabase.auth.getUser() answers
CreateProjectGetUser(i, ok) ==
    /\ i \in 1..Len(reqs)
    /\ reqs[i].op = "createProject" /\ reqs[i].pc = "getUser"
    /\ LET user == IF ok THEN authSession ELSE Null
       IN  IF ~Truthy(user)
           THEN Fail(i, "createProject", "Failed to create project")
           ELSE /\ CommitLocal(pm, ed, [reqs EXCEPT ![i].pc = "insertProject", ![i].user = user],
                               timers, FALSE)
                /\ UNCHANGED <<toast, lastOp>>
    /\ UNCHANGED <<dbVars, authVars, histVars>>

\* createProject: the insert into projects answers
CreateProjectInsertProject(i, ok) ==
    /\ i \in 1..Len(reqs)
    /\ reqs[i].op = "createProject" /\ reqs[i].pc = "insertProject"
    /\ ok => nextProject < MaxProjects
    /\ IF ~ok
       THEN Fail(i, "createProject", "Failed to create project") /\ UNCHANGED dbVars
       ELSE LET data == [id |-> ProjectId(nextProject + 1),
                         name |-> reqs[i].newProject.name,
                         user_id |-> reqs[i].user,
                         is_published |-> FALSE,
                         created_at |-> nextProject + 1]
            IN  /\ dbProjects' = dbProjects \cup {data}
                /\ nextProject' = nextProject + 1
                /\ CommitLocal(pm, ed, [reqs EXCEPT ![i].pc = "insertPage", ![i].data = data],
                               timers, FALSE)
                /\ UNCHANGED <<dbPages, nextPage, toast, lastOp>>
    /\ UNCHANGED <<authVars, histVars>>

\* the default page createProject inserts
HomePage(id, projectId, name) ==
    [id |-> id,
     project_id |-> projectId,
     title |-> "Home",
     slug |-> "home",
     content |-> "# Welcome to " \o name,
     meta_description |-> "Welcome to " \o name,
     meta_keywords |-> Null,
     is_published |-> FALSE,
     order_index |-> 0]

\* createProject: the insert into pages answers; its result is not looked
\* at, the rest of the try block runs
CreateProjectInsertPage(i, ok) ==
    /\ i \in 1..Len(reqs)
    /\ reqs[i].op = "createProject" /\ reqs[i].pc = "insertPage"
    /\ ok => nextPage < MaxPages
    /\ LET data == reqs[i].data
           pages1 == IF ok
                     THEN dbPages \cup {HomePage(PageId(nextPage + 1), data.id, reqs[i].newProject.name)}
                     ELSE dbPages
           pm1 == IF reqs[i].orphan THEN pm
                  ELSE [pm EXCEPT !.projects = <<data>> \o pm.projects,
                                  !.showNewProjectDialog = FALSE,
                                  !.newProject = [name |-> Empty]]
       IN  /\ dbPages' = pages1
           /\ nextPage' = IF ok THEN nextPage + 1 ELSE nextPage
           /\ UNCHANGED <<dbProjects, nextProject>>
           /\ Notify("success", "Project created successfully!")
           /\ Done([op |-> "createProject", result |-> "success", id |-> data.id,
                         pages |-> PagesOf(pages1, data.id)])
           /\ CommitNavigate("editor", data.id, Undefined, pm1, ed, Without(reqs, i), timers, FALSE)
    /\ UNCHANGED <<authVars, histVars>>

\* the Edit item and the Edit button of a project card
EditProjectClick(i) ==
    /\ PMShown
    /\ i \in 1..Len(pm.projects)
    /\ CommitNavigate("editor", pm.projects[i].id, Undefined, pm, ed, reqs, timers, FALSE)
    /\ UNCHANGED <<toast, lastOp, dbVars, authVars, histVars>>

\* slip: the copy keeps the publication state of the original page
CopyOfPageAsPublished(page, id, projectId) ==
    [id |-> id,
     project_id |-> projectId,
     title |-> page.title,
     slug |-> page.slug,
     content |-> page.content,
     meta_description |-> page.meta_description,
     meta_keywords |-> page.meta_keywords,
     is_published |-> page.is_published,
     order_index |-> page.order_index]

\* the row duplicateProject writes for a page of the original
CopyOfPage(page, id, projectId) ==
    [id |-> id,
     project_id |-> projectId,
     title |-> page.title,
     slug |-> page.slug,
     content |-> page.content,
     meta_description |-> page.meta_description,
     meta_keywords |-> page.meta_keywords,
     is_published |-> FALSE,
     order_index |-> page.order_index]

\* duplicateProject ends its try block
DuplicateSuccess(i, projects1, pages1, made) ==
    LET r == reqs[i]
        pm1 == IF r.orphan THEN pm ELSE [pm EXCEPT !.projects = <<r.newProject>> \o pm.projects]
    IN  /\ Notify("success", "Project duplicated successfully!")
        /\ Done([op |-> "duplicateProject", result |-> "success",
                      from |-> r.project.id, id |-> r.newProject.id, made |-> made,
                      origBefore |-> r.origBefore,
                      origAfter |-> [project |-> {p \in projects1 : p.id = r.project.id},
                                     pages |-> PagesOf(pages1, r.project.id)]])
        /\ CommitLocal(pm1, ed, Without(reqs, i), timers, FALSE)

\* duplicateProject(project), up to the first await
DuplicateProject(k) ==
    /\ PMShown
    /\ k \in 1..Len(pm.projects)
    /\ CommitLocal(pm, ed,
                   Append(reqs, [comp |-> "pm", op |-> "duplicateProject", pc |-> "getUser",
                                 project |-> pm.projects[k], user |-> Null,
                                 newProject |-> NoProject, newPages |-> <<>>,
                                 made |-> [projects |-> {}, pages |-> {}],
                                 origBefore |-> RowsOf(pm.projects[k].id),
                                 orphan |-> FALSE]),
                   timers, FALSE)
    /\ UNCHANGED <<toast, lastOp, dbVars, authVars, histVars>>

\* duplicateProject: supabase.auth.getUser() answers
DuplicateGetUser(i, ok) ==
    /\ i \in 1..Len(reqs)
    /\ reqs[i].op = "duplicateProject" /\ reqs[i].pc = "getUser"
    /\ LET user == IF ok THEN authSession ELSE Null
       IN  IF ~Truthy(user)
           THEN Fail(i, "duplicateProject", "Failed to duplicate project")
           ELSE /\ CommitLocal(pm, ed, [reqs EXCEPT ![i].pc = "insertProject", ![i].user = user],
                               timers, FALSE)
                /\ UNCHANGED <<toast, lastOp>>
    /\ UNCHANGED <<dbVars, authVars, histVars>>

\* duplicateProject: the insert into projects answers
DuplicateInsertProject(i, ok) ==
    /\ i \in 1..Len(reqs)
    /\ reqs[i].op = "duplicateProject" /\ reqs[i].pc = "insertProject"
    /\ ok => nextProject < MaxProjects
    /\ IF ~ok
       THEN Fail(i, "duplicateProject", "Failed to duplicate project") /\ UNCHANGED dbVars
       ELSE LET newProject == [id |-> ProjectId(nextProject + 1),
                               name |-> reqs[i].project.name \o " (Copy)",
                               user_id |-> reqs[i].user,
                               is_published |-> FALSE,
                               created_at |-> nextProject + 1]
            IN  /\ dbProjects' = dbProjects \cup {newProject}
                /\ nextProject' = nextProject + 1
                /\ CommitLocal(pm, ed,
                               [reqs EXCEPT ![i].pc = "selectPages", ![i].newProject = newProject,
                                            ![i].made.projects = {newProject}],
                               timers, FALSE)
                /\ UNCHANGED <<dbPages, nextPage, toast, lastOp>>
    /\ UNCHANGED <<authVars, histVars>>

\* duplicateProject: the select of the original's pages answers
DuplicateSelectPages(i, ok) ==
    /\ i \in 1..Len(reqs)
    /\ reqs[i].op = "duplicateProject" /\ reqs[i].pc = "selectPages"
    /\ LET pages == PagesOf(dbPages, reqs[i].project.id)
           order == CHOOSE f \in Perms(pages) : TRUE
           newPages == [j \in 1..Cardinality(pages) |->
                            CopyOfPage(order[j], Undefined, reqs[i].newProject.id)]
       IN  IF ~ok
           THEN Fail(i, "duplicateProject", "Failed to duplicate project")
           ELSE IF pages # {}
           THEN /\ CommitLocal(pm, ed,
                               [reqs EXCEPT ![i].pc = "insertPages", ![i].newPages = newPages],
                               timers, FALSE)
                /\ UNCHANGED <<toast, lastOp>>
           ELSE DuplicateSuccess(i, dbProjects, dbPages, reqs[i].made)
    /\ UNCHANGED <<dbVars, authVars, histVars>>

\* duplicateProject: the insert of the copied pages answers
DuplicateInsertPages(i, ok) ==
    /\ i \in 1..Len(reqs)
    /\ reqs[i].op = "duplicateProject" /\ reqs[i].pc = "insertPages"
    /\ ok => nextPage + Len(reqs[i].newPages) <= MaxPages
    /\ IF ~ok
       THEN Fail(i, "duplicateProject", "Failed to duplicate project") /\ UNCHANGED dbVars
       ELSE LET rows == {[reqs[i].newPages[j] EXCEPT !.id = PageId(nextPage + j)] :
                            j \in 1..Len(reqs[i].newPages)}
            IN  /\ dbPages' = dbPages \cup rows
                /\ nextPage' = nextPage + Len(reqs[i].newPages)
                /\ UNCHANGED <<dbProjects, nextProject>>
                /\ DuplicateSuccess(i, dbProjects, dbPages \cup rows,
                                    [reqs[i].made EXCEPT !.pages = rows])
    /\ UNCHANGED <<authVars, histVars>>

\* ------------------------------------------------------------------------
\* PageEditor
\* ------------------------------------------------------------------------
\* what PageEditor returns: its guards in the order of the code
EdScreen ==
    IF ed.loading THEN "loading"
    ELSE IF ed.project.id = Null THEN "notFound"
    ELSE IF Len(ed.pages) = 0 THEN "noPages"
    ELSE IF ed.currentPage.id = Null THEN "spinner"
    ELSE "editing"

EdEditing == "PageEditor" \in mounted /\ EdScreen = "editing"

\* the values handleSave of the current render closes over
SaveClosure ==
    [projectId |-> appState.selectedProjectId,
     currentPage |-> ed.currentPage,
     pageData |-> ed.pageData]

\* the values deletePage of the current render closes over
DeleteClosure ==
    [projectId |-> appState.selectedProjectId,
     currentPage |-> ed.currentPage,
     pages |-> ed.pages]

\* loadProject: the select of the project answers
LoadProjectProject(i, ok) ==
    /\ i \in 1..Len(reqs)
    /\ reqs[i].op = "loadProject" /\ reqs[i].pc = "project"
    /\ LET rows == {p \in dbProjects : p.id = reqs[i].projectId}
       IN  IF ok /\ rows # {}
           THEN /\ CommitLocal(pm,
                               IF reqs[i].orphan THEN ed
                               ELSE [ed EXCEPT !.project = CHOOSE p \in rows : TRUE],
                               [reqs EXCEPT ![i].pc = "pages"], timers, FALSE)
                /\ UNCHANGED <<toast, lastOp>>
           ELSE /\ Notify("error", "Failed to load project")
                /\ Done([op |-> "loadProject", result |-> "error"])
                /\ CommitLocal(pm,
                               IF reqs[i].orphan THEN ed ELSE [ed EXCEPT !.loading = FALSE],
                               Without(reqs, i), timers, FALSE)
    /\ UNCHANGED <<dbVars, authVars, histVars>>

\* loadProject: the select of the pages answers
LoadProjectPages(i, ok) ==
    /\ i \in 1..Len(reqs)
    /\ reqs[i].op = "loadProject" /\ reqs[i].pc = "pages"
    /\ IF ok
       THEN \E pagesData \in OrderedByIndex(PagesOf(dbPages, reqs[i].projectId)) :
                /\ Done([op |-> "loadProject", result |-> "success"])
                /\ CommitLocal(pm,
                               IF reqs[i].orphan THEN ed
                               ELSE [ed EXCEPT !.pages = pagesData, !.loading = FALSE],
                               Without(reqs, i), timers, ~reqs[i].orphan)
                /\ UNCHANGED toast
       ELSE /\ Notify("error", "Failed to load project")
            /\ Done([op |-> "loadProject", result |-> "error"])
            /\ CommitLocal(pm,
                           IF reqs[i].orphan THEN ed ELSE [ed EXCEPT !.loading = FALSE],
                           Without(reqs, i), timers, FALSE)
    /\ UNCHANGED <<dbVars, authVars, histVars>>

\* typing in the markdown editor: onChange of MarkdownEditor
SetContent(content) ==
    /\ EdEditing
    /\ ed.pageData.content # content
    /\ CommitLocal(pm, [ed EXCEPT !.pageData.content = content], reqs, timers, FALSE)
    /\ UNCHANGED <<toast, lastOp, dbVars, authVars, histVars>>

\* handleSave of the render with closure c, up to the await; alive tells
\* that the component of that render is still in the tree; publish and want
\* record whether handlePublish scheduled the call and which state it aimed at
SaveRequest(c, alive, publish, want, timers1) ==
    IF c.currentPage.id = Null \/ ~Truthy(c.projectId)
    THEN CommitLocal(pm, ed, reqs, timers1, FALSE)
    ELSE CommitLocal(pm,
                     IF alive THEN [ed EXCEPT !.saving = TRUE] ELSE ed,
                     Append(reqs, [comp |-> "ed", op |-> "save", pageId |-> c.currentPage.id,
                                   pageData |-> c.pageData, publish |-> publish, want |-> want,
                                   orphan |-> ~alive]),
                     timers1, FALSE)

\* the Save button of the header and the Save Changes button of the settings,
\* both disabled={saving}: handleSave of the current render
HandleSave ==
    /\ EdEditing
    /\ ~ed.saving
    /\ SaveRequest(SaveClosure, TRUE, FALSE, FALSE, timers)
    /\ UNCHANGED <<toast, lastOp, dbVars, authVars, histVars>>

\* the Save button of MarkdownEditor, onClick={onSave} with onSave={handleSave}
\* and no disabled attribute
OnSave ==
    /\ EdEditing
    /\ SaveRequest(SaveClosure, TRUE, FALSE, FALSE, timers)
    /\ UNCHANGED <<toast, lastOp, dbVars, authVars, histVars>>

\* the row an update of handleSave leaves
SavedRow(row, pageData) ==
    [row EXCEPT !.title = pageData.title,
                !.slug = pageData.slug,
                !.content = pageData.content,
                !.meta_description = pageData.metaDescription,
                !.meta_keywords = pageData.metaKeywords,
                !.is_published = pageData.isPublished]

\* handleSave: the update answers
HandleSaveResolve(i, ok) ==
    /\ i \in 1..Len(reqs)
    /\ reqs[i].op = "save"
    /\ LET r == reqs[i]
           pages1 == IF ok
                     THEN {IF p.id = r.pageId THEN SavedRow(p, r.pageData) ELSE p : p \in dbPages}
                     ELSE dbPages
           edOk == [ed EXCEPT !.pages = [k \in 1..Len(ed.pages) |->
                                            IF ed.pages[k].id = r.pageId
                                            THEN SavedRow(ed.pages[k], r.pageData)
                                            ELSE ed.pages[k]],
                              !.saving = FALSE]
           ed1 == IF r.orphan THEN ed ELSE IF ok THEN edOk ELSE [ed EXCEPT !.saving = FALSE]
           res == Rerender(appState, pm, ed1, Without(reqs, i), timers, FALSE, ok /\ ~r.orphan)
       IN  /\ dbPages' = pages1
           /\ UNCHANGED <<dbProjects, nextProject, nextPage>>
           /\ IF ok THEN Notify("success", "Page saved successfully!")
              ELSE Notify("error", "Failed to save page")
           /\ Done([op |-> "save", result |-> IF ok THEN "success" ELSE "error",
                    publish |-> r.publish, want |-> r.want,
                    stored |-> {p.is_published : p \in {q \in pages1 : q.id = r.pageId}},
                    listed |-> {res.ed.pages[k].is_published :
                                   k \in {n \in 1..Len(res.ed.pages) : res.ed.pages[n].id = r.pageId}},
                    buffer |-> res.ed.pageData.isPublished])
           /\ Commit(res, FALSE)
    /\ UNCHANGED <<authVars, histVars>>

\* handlePublish
HandlePublish ==
    /\ EdEditing
    /\ LET newPublishState == ~ed.pageData.isPublished
       IN  CommitLocal(pm, [ed EXCEPT !.pageData.isPublished = newPublishState], reqs,
                       Append(timers, [comp |-> "ed", closure |-> SaveClosure,
                                       want |-> newPublishState, orphan |-> FALSE]),
                       FALSE)
    /\ UNCHANGED <<toast, lastOp, dbVars, authVars, histVars>>

\* setTimeout(handleSave, 100) of handlePublish expires
PublishTimer(j) ==
    /\ j \in 1..Len(timers)
    /\ SaveRequest(timers[j].closure, ~timers[j].orphan, TRUE, timers[j].want, Without(timers, j))
    /\ UNCHANGED <<toast, lastOp, dbVars, authVars, histVars>>

\* the New Page buttons and the dialog's onOpenChange
SetShowNewPageDialog(open) ==
    /\ "PageEditor" \in mounted /\ EdScreen \in {"noPages", "editing"}
    /\ ed.showNewPageDialog # open
    /\ CommitLocal(pm, [ed EXCEPT !.showNewPageDialog = open], reqs, timers, FALSE)
    /\ UNCHANGED <<toast, lastOp, dbVars, authVars, histVars>>

\* typing into the title field of the dialog
SetNewPageTitle(title) ==
    /\ "PageEditor" \in mounted /\ EdScreen \in {"noPages", "editing"}
    /\ ed.showNewPageDialog
    /\ ed.newPageTitle # title
    /\ CommitLocal(pm, [ed EXCEPT !.newPageTitle = title], reqs, timers, FALSE)
    /\ UNCHANGED <<toast, lastOp, dbVars, authVars, histVars>>

\* toLowerCase().replace(/[^a-z0-9]+/g, '-').replace(/^-|-$/g, '') on the
\* titles the dialog is filled with
Slugify(title) ==
    CASE title = "About Us" -> "about-us"
      [] title = "Home" -> "home"
      [] title = Blank -> Empty
      [] OTHER -> title

\* createNewPage, up to the await
CreateNewPage ==
    /\ "PageEditor" \in mounted /\ EdScreen \in {"noPages", "editing"}
    /\ ed.showNewPageDialog
    /\ IF ~Truthy(appState.selectedProjectId) \/ Trim(ed.newPageTitle) = Empty
       THEN /\ Done([op |-> "createNewPage", result |-> "rejected"])
            /\ CommitLocal(pm, ed, reqs, timers, FALSE)
       ELSE /\ CommitLocal(pm, ed,
                           Append(reqs, [comp |-> "ed", op |-> "createNewPage",
                                         projectId |-> appState.selectedProjectId,
                                         newPageTitle |-> ed.newPageTitle,
                                         orderIndex |-> Len(ed.pages),
                                         orphan |-> FALSE]),
                           timers, FALSE)
            /\ UNCHANGED lastOp
    /\ UNCHANGED <<toast, dbVars, authVars, histVars>>

\* createNewPage: the insert answers
CreateNewPageResolve(i, ok) ==
    /\ i \in 1..Len(reqs)
    /\ reqs[i].op = "createNewPage"
    /\ ok => nextPage < MaxPages
    /\ IF ~ok
       THEN /\ Notify("error", "Failed to create page")
            /\ Done([op |-> "createNewPage", result |-> "error"])
            /\ CommitLocal(pm, ed, Without(reqs, i), timers, FALSE)
            /\ UNCHANGED dbVars
       ELSE LET r == reqs[i]
                data == [id |-> PageId(nextPage + 1),
                         project_id |-> r.projectId,
                         title |-> r.newPageTitle,
                         slug |-> Slugify(r.newPageTitle),
                         content |-> "# " \o r.newPageTitle,
                         meta_description |-> r.newPageTitle \o " page",
                         meta_keywords |-> Null,
                         is_published |-> FALSE,
                         order_index |-> r.orderIndex]
                ed1 == IF r.orphan THEN ed
                       ELSE [ed EXCEPT !.pages = Append(ed.pages, data),
                                       !.showNewPageDialog = FALSE,
                                       !.newPageTitle = Empty]
            IN  /\ dbPages' = dbPages \cup {data}
                /\ nextPage' = nextPage + 1
                /\ UNCHANGED <<dbProjects, nextProject>>
                /\ Notify("success", "Page created successfully!")
                /\ Done([op |-> "createNewPage", result |-> "success", id |-> data.id])
                /\ CommitNavigate("editor", r.projectId, data.id,
                                  pm, ed1, Without(reqs, i), timers, ~r.orphan)
    /\ UNCHANGED <<authVars, histVars>>

\* slip: the guard of deletePage lets the last page go
DeletePageOffByOne ==
    /\ EdEditing
    /\ IF Len(ed.pages) < 1
       THEN /\ Notify("error", "Cannot delete the last page")
            /\ Done([op |-> "deletePage", result |-> "rejected", listed |-> Len(ed.pages)])
            /\ CommitLocal(pm, ed, reqs, timers, FALSE)
       ELSE /\ Done([op |-> "deletePage", result |-> "requested", listed |-> Len(ed.pages)])
            /\ CommitLocal(pm, ed,
                           Append(reqs, [comp |-> "ed", op |-> "deletePage",
                                         pageToDelete |-> ed.currentPage,
                                         closure |-> DeleteClosure, orphan |-> FALSE]),
                           timers, FALSE)
            /\ UNCHANGED toast
    /\ UNCHANGED <<dbVars, authVars, histVars>>

\* deletePage(currentPage) of the Delete Page item, up to the await
DeletePage ==
    /\ EdEditing
    /\ IF Len(ed.pages) <= 1
       THEN /\ Notify("error", "Cannot delete the last page")
            /\ Done([op |-> "deletePage", result |-> "rejected", listed |-> Len(ed.pages)])
            /\ CommitLocal(pm, ed, reqs, timers, FALSE)
       ELSE /\ Done([op |-> "deletePage", result |-> "requested", listed |-> Len(ed.pages)])
            /\ CommitLocal(pm, ed,
                           Append(reqs, [comp |-> "ed", op |-> "deletePage",
                                         pageToDelete |-> ed.currentPage,
                                         closure |-> DeleteClosure, orphan |-> FALSE]),
                           timers, FALSE)
            /\ UNCHANGED toast
    /\ UNCHANGED <<dbVars, authVars, histVars>>

\* deletePage: the delete answers
DeletePageResolve(i, ok) ==
    /\ i \in 1..Len(reqs)
    /\ reqs[i].op = "deletePage"
    /\ IF ~ok
       THEN /\ Notify("error", "Failed to delete page")
            /\ Done([op |-> "deletePage", result |-> "error"])
            /\ CommitLocal(pm, ed, Without(reqs, i), timers, FALSE)
            /\ UNCHANGED dbVars
       ELSE LET r == reqs[i]
                Keep(p) == p.id # r.pageToDelete.id
                updatedPages == SelectSeq(r.closure.pages, Keep)
                ed1 == IF r.orphan THEN ed ELSE [ed EXCEPT !.pages = updatedPages]
            IN  /\ dbPages' = {p \in dbPages : p.id # r.pageToDelete.id}
                /\ UNCHANGED <<dbProjects, nextProject, nextPage>>
                /\ Notify("success", "Page deleted successfully")
                /\ Done([op |-> "deletePage", result |-> "success"])
                /\ IF r.closure.currentPage.id = r.pageToDelete.id /\ Len(updatedPages) > 0
                   THEN CommitNavigate("editor", r.closure.projectId, updatedPages[1].id,
                                       pm, ed1, Without(reqs, i), timers, ~r.orphan)
                   ELSE CommitLocal(pm, ed1, Without(reqs, i), timers, ~r.orphan)
    /\ UNCHANGED <<authVars, histVars>>

\* the Back to Projects buttons of PageEditor
BackToProjects ==
    /\ "PageEditor" \in mounted /\ EdScreen \in {"notFound", "editing"}
    /\ CommitNavigate("projects", Undefined, Undefined, pm, ed, reqs, timers, FALSE)
    /\ UNCHANGED <<toast, lastOp, dbVars, authVars, histVars>>

\* ------------------------------------------------------------------------
\* MarkdownEditor
\* ------------------------------------------------------------------------
\* String.prototype.substring(a, b): both indices are clamped to the length
\* and swapped when a > b
Substring(str, a, b) ==
    LET ca == IF a < 0 THEN 0 ELSE IF a > Len(str) THEN Len(str) ELSE a
        cb == IF b < 0 THEN 0 ELSE IF b > Len(str) THEN Len(str) ELSE b
        lo == IF ca < cb THEN ca ELSE cb
        hi == IF ca < cb THEN cb ELSE ca
    IN  SubSeq(str, lo + 1, hi)

\* String.prototype.substring(a)
SubstringFrom(str, a) == Substring(str, a, Len(str))

\* textarea.setSelectionRange(a, b) on a value of length len
SetSelectionRange(len, a, b) ==
    LET e == IF b > len THEN len ELSE b
        st == IF a > len THEN len ELSE a
    IN  [selectionStart |-> IF st > e THEN e ELSE st, selectionEnd |-> e]

\* the grave accent of the Code button, a character that cannot be written
\* in a string here; the apostrophe stands for it
Backtick == "'"

\* the before and after of the toolbar buttons Bold, Italic, Link, Image,
\* List and Code
ToolbarButtons ==
    {[before |-> "**", after |-> "**"],
     [before |-> "*", after |-> "*"],
     [before |-> "[", after |-> "](url)"],
     [before |-> "![alt](", after |-> ")"],
     [before |-> "- ", after |-> Empty],
     [before |-> Backtick, after |-> Backtick]}

\* slip: the rest of the content is taken from start, not from end
SpliceKeepsSelection(content, start, end, beforeText, afterText) ==
    LET selectedText == Substring(content, start, end)
    IN  [newContent |-> Substring(content, 0, start) \o beforeText \o selectedText \o afterText
                            \o SubstringFrom(content, start),
         selectedText |-> selectedText,
         start |-> start + Len(beforeText),
         end |-> start + Len(beforeText) + Len(selectedText)]

\* insertMarkdown: the new content and the range its timer selects
Splice(content, start, end, beforeText, afterText) ==
    LET selectedText == Substring(content, start, end)
    IN  [newContent |-> Substring(content, 0, start) \o beforeText \o selectedText \o afterText
                            \o SubstringFrom(content, end),
         selectedText |-> selectedText,
         start |-> start + Len(beforeText),
         end |-> start + Len(beforeText) + Len(selectedText)]

\* a toolbar button: insertMarkdown(b.before, b.after) up to its setTimeout
InsertMarkdown(b) ==
    /\ EdEditing
    /\ Len(textarea.pending) < MaxInFlight
    /\ LET start == textarea.selectionStart
           end == textarea.selectionEnd
           r == Splice(ed.pageData.content, start, end, b.before, b.after)
       IN  /\ CommitWith(Rerender(appState, pm, [ed EXCEPT !.pageData.content = r.newContent],
                                   reqs, timers, FALSE, FALSE),
                          FALSE,
                          [textarea EXCEPT !.pending = Append(@, [start |-> r.start, end |-> r.end])])
           /\ Done([op |-> "insertMarkdown", content |-> ed.pageData.content,
                    start |-> start, end |-> end, before |-> b.before, after |-> b.after,
                    newContent |-> r.newContent])
    /\ UNCHANGED <<toast, dbVars, authVars, histVars>>

\* the setTimeout(..., 0) of insertMarkdown expires
RestoreSelection ==
    /\ textarea.pending # <<>>
    /\ Step
    /\ LET h == Head(textarea.pending)
           sel == SetSelectionRange(Len(ed.pageData.content), h.start, h.end)
       IN  textarea' = [selectionStart |-> sel.selectionStart,
                        selectionEnd |-> sel.selectionEnd,
                        pending |-> Tail(textarea.pending)]
    /\ UNCHANGED <<navVars, mounted, pm, ed, dash, sb, reqs, timers, toast, lastOp,
                   dbVars, authVars, histVars>>

\* the user selects the text from a to b, or puts the cursor at a = b
SelectText(a, b) ==
    /\ EdEditing
    /\ a <= b /\ b <= Len(ed.pageData.content)
    /\ <<a, b>> # <<textarea.selectionStart, textarea.selectionEnd>>
    /\ Step
    /\ textarea' = [textarea EXCEPT !.selectionStart = a, !.selectionEnd = b]
    /\ UNCHANGED <<navVars, mounted, pm, ed, dash, sb, reqs, timers, toast, lastOp,
                   dbVars, authVars, histVars>>

\* ------------------------------------------------------------------------
\* Layout: Sidebar and Header
\* ------------------------------------------------------------------------
\* slip: an item whose id is no View
SidebarItemsWithProfile ==
    {"dashboard", "projects", "templates", "analytics", "settings", "profile"}

\* slip: an item that opens the editor without a project
SidebarItemsWithEditor ==
    {"dashboard", "projects", "templates", "analytics", "settings", "editor"}

SidebarItems == {"dashboard", "projects", "templates", "analytics", "settings"}

\* a button of the Sidebar's main navigation
SidebarItemClick(view) ==
    /\ "Sidebar" \in mounted
    /\ CommitNavigate(view, Undefined, Undefined, pm, ed, reqs, timers, FALSE)
    /\ UNCHANGED <<toast, lastOp, dbVars, authVars, histVars>>

\* the backend changes the session to s and notifies the subscribers
SessionChange(s) ==
    /\ authCount < MaxAuthEvents
    /\ authSession' = s
    /\ authEvents' = Append(authEvents, s)
    /\ authCount' = authCount + 1
    /\ UNCHANGED sessionQuery

\* Header.handleSignOut: supabase.auth.signOut()
HandleSignOut ==
    /\ "Header" \in mounted
    /\ SessionChange(Null)
    /\ Step
    /\ UNCHANGED <<navVars, uiVars, dbVars, histVars>>

\* sign-in through the authentication screen, token refresh, expiry
BackendSessionChange(s) ==
    /\ SessionChange(s)
    /\ Step
    /\ UNCHANGED <<navVars, uiVars, dbVars, histVars>>

\* ------------------------------------------------------------------------
\* Dashboard
\* ------------------------------------------------------------------------
\* .limit(5) of the projects select
DashLimit == 5
\* number of analytics events the backend holds
MaxEvents == 6

\* the first n rows of an answer
Limit(rows, n) == SubSeq(rows, 1, IF Len(rows) < n THEN Len(rows) ELSE n)

\* slip: Math.round in the place of Math.floor
ActiveUsersRounded(totalViews) == (totalViews * 4 + 5) \div 10

\* Math.floor(totalViews * 0.4)
ActiveUsers(totalViews) == (totalViews * 4) \div 10

\* the stats loadDashboardData derives from its two answers
StatsOf(projectsData, analyticsLength) ==
    [totalProjects |-> Len(projectsData),
     publishedSites |-> Cardinality({k \in 1..Len(projectsData) : projectsData[k].is_published}),
     totalViews |-> analyticsLength,
     activeUsers |-> ActiveUsers(analyticsLength)]

\* a state update of Dashboard alone
DashCommit(d) ==
    /\ Step
    /\ dash' = d
    /\ UNCHANGED <<navVars, mounted, pm, ed, sb, reqs, timers, textarea, dbVars, authVars, histVars>>

\* loadDashboardData ends in its catch block: the error is logged only
DashFail ==
    /\ Done([op |-> "loadDashboardData", result |-> "error"])
    /\ UNCHANGED toast
    /\ DashCommit([dash EXCEPT !.loading = FALSE, !.pc = "failed", !.projectsData = <<>>])

\* loadDashboardData: the select of the projects answers
LoadDashboardProjects(ok) ==
    /\ "Dashboard" \in mounted
    /\ dash.pc = "projects"
    /\ IF ok
       THEN /\ DashCommit([dash EXCEPT !.pc = "analytics",
                                       !.projectsData = Limit(ByUpdatedAt(dbProjects), DashLimit)])
            /\ UNCHANGED <<toast, lastOp>>
       ELSE DashFail

\* loadDashboardData: the select of the analytics events answers with n rows
LoadDashboardAnalytics(ok, n) ==
    /\ "Dashboard" \in mounted
    /\ dash.pc = "analytics"
    /\ IF ok
       THEN /\ DashCommit([dash EXCEPT !.projects = dash.projectsData,
                                       !.stats = StatsOf(dash.projectsData, n),
                                       !.loading = FALSE,
                                       !.pc = "done",
                                       !.projectsData = <<>>])
            /\ Done([op |-> "loadDashboardData", result |-> "success",
                     fetched |-> dash.projectsData, events |-> n])
            /\ UNCHANGED toast
       ELSE DashFail

\* the buttons New Project, View All, Create Project and the quick actions
DashboardViews == {"projects", "templates", "analytics"}

DashboardNavClick(view) ==
    /\ "Dashboard" \in mounted
    /\ CommitNavigate(view, Undefined, Undefined, pm, ed, reqs, timers, FALSE)
    /\ UNCHANGED <<toast, lastOp, dbVars, authVars, histVars>>

\* a project of the Recent Projects list and its Edit item
DashboardProjectClick(k) ==
    /\ "Dashboard" \in mounted
    /\ ~dash.loading
    /\ k \in 1..Len(dash.projects)
    /\ CommitNavigate("editor", dash.projects[k].id, Undefined, pm, ed, reqs, timers, FALSE)
    /\ UNCHANGED <<toast, lastOp, dbVars, authVars, histVars>>

\* ------------------------------------------------------------------------
\* Sidebar: loadProjects and the project tree
\* ------------------------------------------------------------------------
\* a state update of Sidebar alone; the expand effect follows it
SbCommit(s1) ==
    /\ Step
    /\ sb' = ExpandEffect(s1, appState)
    /\ UNCHANGED <<navVars, mounted, pm, ed, dash, reqs, timers, textarea, dbVars, authVars, histVars>>

\* loadProjects ends in its catch block: the error is logged only
SbFail ==
    /\ Done([op |-> "sidebarLoadProjects", result |-> "error"])
    /\ UNCHANGED toast
    /\ SbCommit([sb EXCEPT !.pc = "failed", !.pending = {}, !.results = {}])

\* loadProjects: the select of the projects answers
SidebarLoadProjects(ok) ==
    /\ "Sidebar" \in mounted
    /\ sb.pc = "projects"
    /\ IF ok
       THEN LET data == ByUpdatedAt(dbProjects)
            IN  /\ IF Len(data) > 0
                   THEN SbCommit([sb EXCEPT !.projects = data,
                                            !.pc = "pages",
                                            !.pending = {data[k].id : k \in 1..Len(data)},
                                            !.results = {}])
                   ELSE SbCommit([sb EXCEPT !.projects = data, !.pc = "done"])
                /\ UNCHANGED <<toast, lastOp>>
       ELSE SbFail

\* slip: every page fetch writes its answer into the page map on its own
SidebarLoadPagesEach(p, ok) ==
    /\ "Sidebar" \in mounted
    /\ sb.pc = "pages"
    /\ p \in sb.pending
    /\ IF ok
       THEN \E pages \in OrderedByIndex(PagesOf(dbPages, p)) :
                LET results1 == sb.results \cup {[projectId |-> p, pages |-> pages]}
                    pending1 == sb.pending \ {p}
                IN  IF pending1 = {}
                    THEN /\ SbCommit([sb EXCEPT !.projectPages = PagesMap(results1),
                                                !.pc = "done",
                                                !.pending = {},
                                                !.results = {}])
                         /\ Done([op |-> "sidebarLoadProjects", result |-> "success"])
                         /\ UNCHANGED toast
                    ELSE /\ SbCommit([sb EXCEPT !.projectPages = PagesMap(results1),
                                                !.pending = pending1,
                                                !.results = results1])
                         /\ UNCHANGED <<toast, lastOp>>
       ELSE SbFail

\* loadProjects: the page fetch of project p answers; Promise.all resolves
\* with the last answer and rejects with the first failure
SidebarLoadPages(p, ok) ==
    /\ "Sidebar" \in mounted
    /\ sb.pc = "pages"
    /\ p \in sb.pending
    /\ IF ok
       THEN \E pages \in OrderedByIndex(PagesOf(dbPages, p)) :
                LET results1 == sb.results \cup {[projectId |-> p, pages |-> pages]}
                    pending1 == sb.pending \ {p}
                IN  IF pending1 = {}
                    THEN /\ SbCommit([sb EXCEPT !.projectPages = PagesMap(results1),
                                                !.pc = "done",
                                                !.pending = {},
                                                !.results = {}])
                         /\ Done([op |-> "sidebarLoadProjects", result |-> "success"])
                         /\ UNCHANGED toast
                    ELSE /\ SbCommit([sb EXCEPT !.pending = pending1, !.results = results1])
                         /\ UNCHANGED <<toast, lastOp>>
       ELSE SbFail

\* the ids of the projects the Sidebar lists
SbProjectIds == {sb.projects[k].id : k \in 1..Len(sb.projects)}

\* toggleProject(project.id)
ToggleProject(p) ==
    /\ "Sidebar" \in mounted
    /\ p \in SbProjectIds
    /\ SbCommit([sb EXCEPT !.expandedProjects =
                               IF p \in sb.expandedProjects
                               THEN sb.expandedProjects \ {p}
                               ELSE sb.expandedProjects \cup {p}])
    /\ UNCHANGED <<toast, lastOp>>

\* the pages the Sidebar lists under project p: projectPages[p] || []
SbPagesOf(p) ==
    UNION {{e.pages[k] : k \in 1..Len(e.pages)} : e \in {x \in sb.projectPages : x.projectId = p}}

\* the button of a page under an expanded project
SidebarPageClick(p, g) ==
    /\ "Sidebar" \in mounted
    /\ p \in SbProjectIds /\ p \in sb.expandedProjects
    /\ \E page \in SbPagesOf(p) :
          /\ page.id = g
          /\ CommitNavigate("editor", p, page.id, pm, ed, reqs, timers, FALSE)
    /\ UNCHANGED <<toast, lastOp, dbVars, authVars, histVars>>

\* the Add Page button under an expanded project
SidebarAddPageClick(p) ==
    /\ "Sidebar" \in mounted
    /\ p \in SbProjectIds /\ p \in sb.expandedProjects
    /\ CommitNavigate("editor", p, Undefined, pm, ed, reqs, timers, FALSE)
    /\ UNCHANGED <<toast, lastOp, dbVars, authVars, histVars>>

\* ------------------------------------------------------------------------
\* App: the session effect
\* ------------------------------------------------------------------------
\* slip: the handler builds the state anew instead of spreading prev
SetUserReset(prev, session) ==
    [InitialAppState EXCEPT !.user = Coalesce(session, Null)]

\* setAppState(prev => ({ ...prev, user: session?.user ?? null }))
SetUser(prev, session) ==
    [prev EXCEPT !.user = Coalesce(session, Null)]

\* the backend answers getSession()
GetSessionAnswer ==
    /\ sessionQuery.pc = "pending"
    /\ sessionQuery' = [pc |-> "answered", session |-> authSession]
    /\ Step
    /\ UNCHANGED <<authSession, authEvents, authCount, navVars, uiVars, dbVars, histVars>>

\* the then-callback of getSession()
GetSessionResolve ==
    /\ sessionQuery.pc = "answered"
    /\ sessionQuery' = [sessionQuery EXCEPT !.pc = "done"]
    /\ Commit(Rerender(SetUser(appState, sessionQuery.session), pm, ed, reqs, timers, TRUE, FALSE),
              FALSE)
    /\ UNCHANGED <<authSession, authEvents, authCount, toast, lastOp, dbVars, histVars>>

\* the onAuthStateChange callback receives the oldest pending notification
AuthStateChange ==
    /\ authEvents # <<>>
    /\ authEvents' = Tail(authEvents)
    /\ Commit(Rerender(SetUser(appState, Head(authEvents)), pm, ed, reqs, timers, TRUE, FALSE),
              FALSE)
    /\ UNCHANGED <<authSession, sessionQuery, authCount, toast, lastOp, dbVars, histVars>>

\* ------------------------------------------------------------------------
\* The application
\* ------------------------------------------------------------------------
\* the names and titles the forms are filled with, the text typed in the editor
NameInputs == {Empty, Blank, "Test"}
TitleInputs == {Empty, "About Us"}
ContentInputs == {"edited"}

InitialProject ==
    [id |-> ProjectId(1), name |-> "Site", user_id |-> UserId(1),
     is_published |-> TRUE, created_at |-> 1]

InitialPage(n) ==
    [id |-> PageId(n),
     project_id |-> ProjectId(1),
     title |-> IF n = 1 THEN "Home" ELSE "About Us",
     slug |-> IF n = 1 THEN "home" ELSE "about-us",
     content |-> "stored",
     meta_description |-> Null,
     meta_keywords |-> Null,
     is_published |-> (n = 1),
     order_index |-> n - 1]

\* the tables before the application starts: one project with up to
\* MaxInitPages pages
InitDb ==
    /\ dbProjects = {InitialProject}
    /\ nextProject = 1
    /\ \E n \in 0..MaxInitPages :
          /\ dbPages = {InitialPage(k) : k \in 1..n}
          /\ nextPage = n

NoHistory ==
    /\ navTick = FALSE
    /\ lastCall = NoCall
    /\ before = InitialAppState
    /\ given = [projectId |-> Null, pageId |-> Null]
    /\ named = [projectId |-> Null, pageId |-> Null]
    /\ repeated = FALSE

\* App has mounted: getSession() is on its way, the subscription is set up
InitApp ==
    /\ appState = InitialAppState
    /\ authSession \in Users \cup {Null}
    /\ sessionQuery = [pc |-> "pending", session |-> Null]
    /\ authEvents = <<>>
    /\ authCount = 0
    /\ InitDb
    /\ mounted = Render(InitialAppState)
    /\ pm = InitialPM
    /\ ed = InitialEd
    /\ dash = NoDash
    /\ sb = NoSb
    /\ reqs = <<>>
    /\ timers = <<>>
    /\ textarea = NoSelection
    /\ toast = NoToast
    /\ lastOp = NoOp
    /\ NoHistory

Slots == 1..MaxInFlight

PMActions ==
    \/ \E open \in BOOLEAN : SetShowNewProjectDialog(open)
    \/ \E name \in NameInputs : SetNewProjectName(name)
    \/ CreateProject
    \/ \E k \in 1..MaxProjects : DuplicateProject(k)
    \/ \E k \in 1..MaxProjects : EditProjectClick(k)
    \/ \E i \in Slots, ok \in BOOLEAN : LoadProjectsResolve(i, ok)
    \/ \E i \in Slots, ok \in BOOLEAN : CreateProjectGetUser(i, ok)
    \/ \E i \in Slots, ok \in BOOLEAN : CreateProjectInsertProject(i, ok)
    \/ \E i \in Slots, ok \in BOOLEAN : CreateProjectInsertPage(i, ok)
    \/ \E i \in Slots, ok \in BOOLEAN : DuplicateGetUser(i, ok)
    \/ \E i \in Slots, ok \in BOOLEAN : DuplicateInsertProject(i, ok)
    \/ \E i \in Slots, ok \in BOOLEAN : DuplicateSelectPages(i, ok)
    \/ \E i \in Slots, ok \in BOOLEAN : DuplicateInsertPages(i, ok)

\* PageEditor: loading
EdLoadActions ==
    \/ \E i \in Slots, ok \in BOOLEAN : LoadProjectProject(i, ok)
    \/ \E i \in Slots, ok \in BOOLEAN : LoadProjectPages(i, ok)

\* PageEditor: editing, saving and publishing the current page
EdSaveActions ==
    \/ \E content \in ContentInputs : SetContent(content)
    \/ HandleSave
    \/ OnSave
    \/ HandlePublish
    \/ \E j \in Slots : PublishTimer(j)
    \/ \E i \in Slots, ok \in BOOLEAN : HandleSaveResolve(i, ok)

\* PageEditor: creating and deleting pages
EdPageActions ==
    \/ \E open \in BOOLEAN : SetShowNewPageDialog(open)
    \/ \E title \in TitleInputs : SetNewPageTitle(title)
    \/ CreateNewPage
    \/ DeletePage
    \/ \E i \in Slots, ok \in BOOLEAN : CreateNewPageResolve(i, ok)
    \/ \E i \in Slots, ok \in BOOLEAN : DeletePageResolve(i, ok)

EdActions == BackToProjects \/ EdLoadActions \/ EdSaveActions \/ EdPageActions

LayoutActions ==
    \/ HandleSignOut
    \/ \E view \in SidebarItems : SidebarItemClick(view)

\* the ids the backend generates within the bounds
ProjectIds == {ProjectId(n) : n \in 1..MaxProjects}
PageIds == {PageId(n) : n \in 1..MaxPages}

DashActions ==
    \/ \E ok \in BOOLEAN : LoadDashboardProjects(ok)
    \/ \E ok \in BOOLEAN, n \in 0..MaxEvents : LoadDashboardAnalytics(ok, n)
    \/ \E view \in DashboardViews : DashboardNavClick(view)
    \/ \E k \in 1..DashLimit : DashboardProjectClick(k)

SidebarActions ==
    \/ \E ok \in BOOLEAN : SidebarLoadProjects(ok)
    \/ \E p \in ProjectIds, ok \in BOOLEAN : SidebarLoadPages(p, ok)
    \/ \E p \in ProjectIds : ToggleProject(p)
    \/ \E p \in ProjectIds, g \in PageIds : SidebarPageClick(p, g)
    \/ \E p \in ProjectIds : SidebarAddPageClick(p)

SessionActions ==
    \/ \E s \in Users \cup {Null} : BackendSessionChange(s)
    \/ GetSessionAnswer
    \/ GetSessionResolve
    \/ AuthStateChange

\* Sidebar after its loadProjects has gone through over the initial tables
LoadedSb(app) ==
    ExpandEffect([InitialSb EXCEPT
                     !.projects = ByUpdatedAt(dbProjects),
                     !.projectPages =
                         PagesMap({[projectId |-> p.id,
                                    pages |-> CHOOSE f \in OrderedByIndex(PagesOf(dbPages, p.id)) : TRUE] :
                                   p \in dbProjects}),
                     !.pc = "done"],
                 app)

\* signed in as the owner of the initial project
SignedIn(view, projectId) ==
    /\ appState = [currentView |-> view, selectedProjectId |-> projectId,
                   selectedPageId |-> Null, user |-> UserId(1)]
    /\ authSession = UserId(1)
    /\ sessionQuery = [pc |-> "done", session |-> UserId(1)]
    /\ authEvents = <<>>
    /\ authCount = 0
    /\ InitDb
    /\ mounted = Render(appState)
    /\ dash = IF view = "dashboard" THEN InitialDash ELSE NoDash
    /\ sb = LoadedSb(appState)
    /\ timers = <<>>
    /\ textarea = NoSelection
    /\ toast = NoToast
    /\ lastCall = NoCall
    /\ before = InitialAppState
    /\ given = [projectId |-> Null, pageId |-> Null]
    /\ named = [projectId |-> Null, pageId |-> Null]
    /\ repeated = FALSE

\* the Projects button of the Sidebar has just been clicked: ProjectManager
\* has mounted and its loadProjects is on its way
InitPM ==
    /\ SignedIn("projects", Null)
    /\ navTick = TRUE
    /\ pm = InitialPM
    /\ ed = InitialEd
    /\ reqs = <<[comp |-> "pm", op |-> "loadProjects", orphan |-> FALSE]>>
    /\ lastOp = NoOp

\* Edit of the initial project has just been clicked in ProjectManager:
\* PageEditor has mounted and its loadProject is on its way
InitEditor ==
    /\ SignedIn("editor", ProjectId(1))
    /\ navTick = FALSE
    /\ pm = InitialPM
    /\ ed = InitialEd
    /\ reqs = <<[comp |-> "ed", op |-> "loadProject", pc |-> "project",
                 projectId |-> ProjectId(1), projectAtStart |-> NoProject,
                 orphan |-> FALSE]>>
    /\ lastOp = [op |-> "loadProjects", result |-> "success"]

\* sign-in has just gone through: Dashboard has mounted and its
\* loadDashboardData is on its way
InitHome ==
    /\ SignedIn("dashboard", Null)
    /\ navTick = FALSE
    /\ pm = InitialPM
    /\ ed = InitialEd
    /\ reqs = <<>>
    /\ lastOp = NoOp

\* a project the user has made earlier, with its Home page
DashProject(k, published) ==
    [id |-> ProjectId(k), name |-> "Site", user_id |-> UserId(1),
     is_published |-> published, created_at |-> k]

\* sign-in has just gone through with up to MaxDashProjects projects of the
\* user in the backend, some of them published: Dashboard has mounted and
\* its loadDashboardData is on its way
InitDashboard ==
    /\ appState = [currentView |-> "dashboard", selectedProjectId |-> Null,
                   selectedPageId |-> Null, user |-> UserId(1)]
    /\ authSession = UserId(1)
    /\ sessionQuery = [pc |-> "done", session |-> UserId(1)]
    /\ authEvents = <<>>
    /\ authCount = 0
    /\ \E n \in 0..MaxDashProjects :
          \E pub \in SUBSET (1..n) :
              /\ dbProjects = {DashProject(k, k \in pub) : k \in 1..n}
              /\ nextProject = n
              /\ dbPages = {HomePage(PageId(k), ProjectId(k), "Site") : k \in 1..n}
              /\ nextPage = n
    /\ mounted = Render(appState)
    /\ pm = InitialPM
    /\ ed = InitialEd
    /\ dash = InitialDash
    /\ sb = LoadedSb(appState)
    /\ reqs = <<>>
    /\ timers = <<>>
    /\ textarea = NoSelection
    /\ toast = NoToast
    /\ lastOp = NoOp
    /\ NoHistory

\* page j of project k, made earlier in the editor
SbPage(k, j) ==
    [id |-> PageId((k - 1) * MaxInitPages + j),
     project_id |-> ProjectId(k),
     title |-> IF j = 1 THEN "Home" ELSE "About Us",
     slug |-> IF j = 1 THEN "home" ELSE "about-us",
     content |-> "stored",
     meta_description |-> Null,
     meta_keywords |-> Null,
     is_published |-> FALSE,
     order_index |-> j - 1]

\* sign-in has just gone through with up to MaxProjects projects of up to
\* MaxInitPages pages in the backend: Layout has mounted, loadProjects of
\* the Sidebar and loadDashboardData of the Dashboard are on their way
InitSidebar ==
    /\ appState = [currentView |-> "dashboard", selectedProjectId |-> Null,
                   selectedPageId |-> Null, user |-> UserId(1)]
    /\ authSession = UserId(1)
    /\ sessionQuery = [pc |-> "done", session |-> UserId(1)]
    /\ authEvents = <<>>
    /\ authCount = 0
    /\ \E n \in 0..MaxProjects :
          \E count \in [1..n -> 0..MaxInitPages] :
              /\ dbProjects = {DashProject(k, FALSE) : k \in 1..n}
              /\ nextProject = n
              /\ dbPages = UNION {{SbPage(k, j) : j \in 1..count[k]} : k \in 1..n}
              /\ nextPage = n * MaxInitPages
    /\ mounted = Render(appState)
    /\ pm = InitialPM
    /\ ed = InitialEd
    /\ dash = InitialDash
    /\ sb = ExpandEffect(InitialSb, appState)
    /\ reqs = <<>>
    /\ timers = <<>>
    /\ textarea = NoSelection
    /\ toast = NoToast
    /\ lastOp = NoOp
    /\ NoHistory

\* the texts of up to n letters
RECURSIVE Texts(_)
Texts(n) ==
    IF n = 0 THEN {Empty}
    ELSE Texts(n - 1) \cup {t \o c : t \in Texts(n - 1), c \in {"a", "b"}}

\* PageEditor shows the only page of the initial project, whose content is a
\* text of up to MaxLen letters, and the user has selected a part of it
InitMarkdownEditor ==
    /\ appState = [currentView |-> "editor", selectedProjectId |-> ProjectId(1),
                   selectedPageId |-> PageId(1), user |-> UserId(1)]
    /\ authSession = UserId(1)
    /\ sessionQuery = [pc |-> "done", session |-> UserId(1)]
    /\ authEvents = <<>>
    /\ authCount = 0
    /\ dbProjects = {InitialProject}
    /\ nextProject = 1
    /\ nextPage = 1
    /\ \E content \in Texts(MaxLen) :
          LET page == [InitialPage(1) EXCEPT !.content = content]
          IN  /\ dbPages = {page}
              /\ ed = [InitialEd EXCEPT !.loading = FALSE,
                                         !.project = InitialProject,
                                         !.pages = <<page>>,
                                         !.currentPage = page,
                                         !.pageData = FromPage(page)]
              /\ \E a, b \in 0..Len(content) :
                    /\ a <= b
                    /\ textarea = [NoSelection EXCEPT !.selectionStart = a, !.selectionEnd = b]
    /\ mounted = Render(appState)
    /\ pm = InitialPM
    /\ dash = NoDash
    /\ sb = LoadedSb(appState)
    /\ reqs = <<>>
    /\ timers = <<>>
    /\ toast = NoToast
    /\ lastOp = [op |-> "loadProject", result |-> "success"]
    /\ NoHistory

\* two projects with pages were there at sign-in and the Sidebar lists
\* them; Edit of the older project has just been clicked: PageEditor has
\* mounted and its loadProject is on its way
InitTwoProjects ==
    /\ appState = [currentView |-> "editor", selectedProjectId |-> ProjectId(1),
                   selectedPageId |-> Null, user |-> UserId(1)]
    /\ authSession = UserId(1)
    /\ sessionQuery = [pc |-> "done", session |-> UserId(1)]
    /\ authEvents = <<>>
    /\ authCount = 0
    /\ \E count \in [1..2 -> 1..MaxInitPages] :
          /\ dbProjects = {DashProject(k, FALSE) : k \in 1..2}
          /\ nextProject = 2
          /\ dbPages = UNION {{SbPage(k, j) : j \in 1..count[k]} : k \in 1..2}
          /\ nextPage = 2 * MaxInitPages
    /\ mounted = Render(appState)
    /\ pm = InitialPM
    /\ ed = InitialEd
    /\ dash = NoDash
    /\ sb = LoadedSb(appState)
    /\ reqs = <<[comp |-> "ed", op |-> "loadProject", pc |-> "project",
                 projectId |-> ProjectId(1), projectAtStart |-> NoProject,
                 orphan |-> FALSE]>>
    /\ timers = <<>>
    /\ textarea = NoSelection
    /\ toast = NoToast
    /\ lastOp = [op |-> "loadProjects", result |-> "success"]
    /\ NoHistory

\* the session gate, the layout and the mounting of the screens
NextSession ==
    \/ BackToProjects
    \/ LayoutActions
    \/ SessionActions
    \/ \E k \in 1..MaxProjects : EditProjectClick(k)
    \/ \E i \in Slots, ok \in BOOLEAN : LoadProjectsResolve(i, ok)
    \/ EdLoadActions

\* App starts over a project with one page
InitSession == InitApp /\ nextPage = 1 /\ steps = MaxSessionSteps

SpecSession == InitSession /\ [][NextSession]_vars

\* ProjectManager on its own
NextPM == PMActions

InitManager == InitPM /\ steps = NotCounted

SpecPM == InitManager /\ [][NextPM]_vars

\* PageEditor on its own: the current page
NextSave == EdLoadActions \/ EdSaveActions

InitSave == InitEditor /\ steps = NotCounted

SpecSave == InitSave /\ [][NextSave]_vars

\* PageEditor while the session is refreshed
NextRefresh ==
    \/ EdLoadActions
    \/ \E content \in ContentInputs : SetContent(content)
    \/ \E s \in Users \cup {Null} : BackendSessionChange(s)
    \/ AuthStateChange

InitRefresh == InitEditor /\ steps = NotCounted

SpecRefresh == InitRefresh /\ [][NextRefresh]_vars

\* PageEditor and the page buttons of the Sidebar: deleting pages
NextDelete ==
    \/ EdLoadActions
    \/ \E p \in ProjectIds, g \in PageIds : SidebarPageClick(p, g)
    \/ DeletePage
    \/ \E i \in Slots, ok \in BOOLEAN : DeletePageResolve(i, ok)

\* the project has a page at the start
InitDelete == InitEditor /\ dbPages # {} /\ steps = NotCounted

SpecDelete == InitDelete /\ [][NextDelete]_vars

\* PageEditor on its own: the page list
NextPages == EdLoadActions \/ EdPageActions

InitPages == InitEditor /\ steps = MaxPageSteps

SpecPages == InitPages /\ [][NextPages]_vars

\* the navigation calls of Dashboard, Sidebar, ProjectManager and PageEditor
\* with the operations that lead to them, MaxRouteSteps steps from a fresh
\* Dashboard, ProjectManager or PageEditor
NextRoutes ==
    \/ \E view \in DashboardViews : DashboardNavClick(view)
    \/ \E k \in 1..DashLimit : DashboardProjectClick(k)
    \/ \E view \in SidebarItems : SidebarItemClick(view)
    \/ \E p \in ProjectIds : ToggleProject(p)
    \/ \E p \in ProjectIds, g \in PageIds : SidebarPageClick(p, g)
    \/ \E p \in ProjectIds : SidebarAddPageClick(p)
    \/ \E ok \in BOOLEAN : LoadDashboardProjects(ok)
    \/ \E ok \in BOOLEAN : LoadDashboardAnalytics(ok, 0)
    \/ PMActions
    \/ BackToProjects
    \/ EdLoadActions
    \/ EdPageActions

InitRoutes == (InitApp \/ InitHome \/ InitPM \/ InitEditor) /\ steps = MaxRouteSteps

SpecRoutes == InitRoutes /\ [][NextRoutes]_vars

\* the Dashboard and the way back to it, MaxDashSteps steps from a fresh
\* Dashboard
NextDash ==
    \/ DashActions
    \/ \E view \in SidebarItems : SidebarItemClick(view)

InitDash == InitDashboard /\ steps = MaxDashSteps

SpecDash == InitDash /\ [][NextDash]_vars

\* the Sidebar, MaxSidebarSteps steps from its mount
NextSidebar ==
    \/ SidebarActions
    \/ \E view \in SidebarItems : SidebarItemClick(view)

InitSide == InitSidebar /\ steps = MaxSidebarSteps

SpecSidebar == InitSide /\ [][NextSidebar]_vars

\* the toolbar of the markdown editor, MaxMarkdownSteps steps
NextMarkdown ==
    \/ \E b \in ToolbarButtons : InsertMarkdown(b)
    \/ RestoreSelection
    \/ \E a, b \in 0..MaxLen : SelectText(a, b)

InitMarkdown == InitMarkdownEditor /\ steps = MaxMarkdownSteps

SpecMarkdown == InitMarkdown /\ [][NextMarkdown]_vars

\* ProjectManager and the editor it opens, from a fresh PageEditor on the
\* initial project
NextTour ==
    \/ PMActions
    \/ EdLoadActions
    \/ BackToProjects

InitTour == InitEditor /\ steps = NotCounted

SpecTour == InitTour /\ [][NextTour]_vars

\* creating a project and opening the editor while the backend answers
\* every select of loadProject with success; every request that is awaited
\* is answered at some time
NextOpen ==
    \/ \E open \in BOOLEAN : SetShowNewProjectDialog(open)
    \/ \E name \in NameInputs : SetNewProjectName(name)
    \/ CreateProject
    \/ \E k \in 1..MaxProjects : EditProjectClick(k)
    \/ \E i \in Slots, ok \in BOOLEAN : LoadProjectsResolve(i, ok)
    \/ \E i \in Slots, ok \in BOOLEAN : CreateProjectGetUser(i, ok)
    \/ \E i \in Slots, ok \in BOOLEAN : CreateProjectInsertProject(i, ok)
    \/ \E i \in Slots, ok \in BOOLEAN : CreateProjectInsertPage(i, ok)
    \/ BackToProjects
    \/ \E i \in Slots : LoadProjectProject(i, TRUE)
    \/ \E i \in Slots : LoadProjectPages(i, TRUE)

InitOpen == InitEditor /\ steps = NotCounted

SpecOpen ==
    /\ InitOpen
    /\ [][NextOpen]_vars
    /\ WF_vars(\E i \in Slots : LoadProjectProject(i, TRUE))
    /\ WF_vars(\E i \in Slots : LoadProjectPages(i, TRUE))

\* the editor under the project tree of the Sidebar, while the backend
\* answers every select of loadProject with success
NextSwitch ==
    \/ \E p \in ProjectIds : ToggleProject(p)
    \/ \E p \in ProjectIds, g \in PageIds : SidebarPageClick(p, g)
    \/ \E p \in ProjectIds : SidebarAddPageClick(p)
    \/ \E i \in Slots : LoadProjectProject(i, TRUE)
    \/ \E i \in Slots : LoadProjectPages(i, TRUE)

InitSwitch == InitTwoProjects /\ steps = NotCounted

SpecSwitch == InitSwitch /\ [][NextSwitch]_vars

\* the same with a user who waits for the editor to have loaded before each
\* click in the Sidebar: no two fetches of the editor are awaited at once
NextCalm ==
    \/ \E p \in ProjectIds : ToggleProject(p)
    \/ \E p \in ProjectIds, g \in PageIds :
          (\A i \in 1..Len(reqs) : reqs[i].op # "loadProject") /\ SidebarPageClick(p, g)
    \/ \E p \in ProjectIds :
          (\A i \in 1..Len(reqs) : reqs[i].op # "loadProject") /\ SidebarAddPageClick(p)
    \/ \E i \in Slots : LoadProjectProject(i, TRUE)
    \/ \E i \in Slots : LoadProjectPages(i, TRUE)

InitCalm == InitTwoProjects /\ steps = NotCounted

SpecCalm == InitCalm /\ [][NextCalm]_vars

\* the whole application, MaxSteps steps from its start, from a fresh
\* ProjectManager or from a fresh PageEditor
NextApp == EdActions \/ PMActions \/ LayoutActions \/ SessionActions

InitWhole == (InitApp \/ InitPM \/ InitEditor) /\ steps = MaxSteps

SpecApp == InitWhole /\ [][NextApp]_vars

\* ------------------------------------------------------------------------
\* PageEditor: publishing
\* ------------------------------------------------------------------------
\* C3: the save that handlePublish schedules writes the new publication
\* state: every save request sent by the timer of handlePublish carries
\* is_published = not b, where b is what the edit buffer held when Publish
\* was clicked, and when that save has succeeded the stored row, the local
\* page list and the edit buffer all show not b.
C3_PublishPersists ==
    /\ \A i \in 1..Len(reqs) :
          (reqs[i].op = "save" /\ reqs[i].publish)
              => reqs[i].pageData.isPublished = reqs[i].want
    /\ (lastOp.op = "save" /\ lastOp.publish /\ lastOp.result = "success")
          => /\ lastOp.stored = {lastOp.want}
             /\ lastOp.listed = {lastOp.want}
             /\ lastOp.buffer = lastOp.want

\* ------------------------------------------------------------------------
\* ProjectManager: creating and duplicating
\* ------------------------------------------------------------------------
\* C4: when createProject has reported success, the backend holds exactly
\* one page of the new project, titled 'Home', with slug 'home',
\* order_index 0 and is_published false.
C4_CreateLeavesHome ==
    (lastOp.op = "createProject" /\ lastOp.result = "success")
        => /\ Cardinality(lastOp.pages) = 1
           /\ \A g \in lastOp.pages :
                 /\ g.project_id = lastOp.id
                 /\ g.title = "Home"
                 /\ g.slug = "home"
                 /\ g.order_index = 0
                 /\ g.is_published = FALSE

\* the one-to-one assignments of the rows of S to the rows of T
Pairings(S, T) ==
    {f \in [S -> T] : \A a, b \in S : f[a] = f[b] => a = b}

\* C6: a successful duplicateProject of a project with n pages has made
\* exactly one new project, which is unpublished, and exactly n new pages
\* of it, one for each page of the original with its title, slug, content
\* and order_index, every one of them unpublished; the rows of the original
\* project and of its pages are what they were when Duplicate was clicked.
C6_DuplicateCopies ==
    (lastOp.op = "duplicateProject" /\ lastOp.result = "success")
        => LET orig == lastOp.origAfter.pages
               made == lastOp.made
           IN  /\ Cardinality(made.projects) = 1
               /\ \A p \in made.projects :
                     /\ p.id = lastOp.id
                     /\ p.id # lastOp.from
                     /\ p.is_published = FALSE
                     /\ p \in dbProjects
                     /\ p \notin lastOp.origBefore.project
               /\ made.pages = PagesOf(dbPages, lastOp.id)
               /\ Cardinality(made.pages) = Cardinality(orig)
               /\ \E f \in Pairings(orig, made.pages) :
                     \A o \in orig :
                         /\ f[o].title = o.title
                         /\ f[o].slug = o.slug
                         /\ f[o].content = o.content
                         /\ f[o].order_index = o.order_index
               /\ \A q \in made.pages :
                     /\ q.is_published = FALSE
                     /\ q.project_id = lastOp.id
                     /\ \A o \in orig : q.id # o.id
               /\ lastOp.origAfter = lastOp.origBefore
               /\ RowsOf(lastOp.from) = lastOp.origBefore

\* a project with two pages, one of them published, has been duplicated
C6_Witness ==
    /\ lastOp.op = "duplicateProject" /\ lastOp.result = "success"
    /\ Cardinality(lastOp.made.pages) = 2
    /\ \E o \in lastOp.origBefore.pages : o.is_published

\* ------------------------------------------------------------------------
\* PageEditor: deleting the last page
\* ------------------------------------------------------------------------
\* C5: a deletePage call while the page list of the editor holds one page
\* or none is rejected: it sends no request, leaves the page list, the
\* tables and the navigation state as they are and shows the error
\* 'Cannot delete the last page'.
C5_LastPageKept ==
    [][(DeletePage /\ Len(ed.pages) <= 1)
          => /\ reqs' = reqs
             /\ ed'.pages = ed.pages
             /\ UNCHANGED dbVars
             /\ appState' = appState /\ navTick' = navTick
             /\ toast' = [kind |-> "error", msg |-> "Cannot delete the last page"]]_vars

\* Delete Page has been clicked on the only page of the project
C5_Witness ==
    /\ lastOp = [op |-> "deletePage", result |-> "rejected", listed |-> 1]
    /\ Len(ed.pages) = 1
    /\ toast = [kind |-> "error", msg |-> "Cannot delete the last page"]

\* ------------------------------------------------------------------------
\* App: the session
\* ------------------------------------------------------------------------
\* C7: while the stored user is absent only the authentication screen is
\* rendered, and neither the layout nor Dashboard, ProjectManager or
\* PageEditor is mounted; a screen is mounted only while a user is stored.
C7_SessionGate ==
    /\ ~Truthy(appState.user) => mounted = {"AuthForm"}
    /\ mounted \cap (Layout \cup Screens) # {} => Truthy(appState.user)

\* the user has gone while the view was the project list
C7_Witness ==
    /\ ~Truthy(appState.user)
    /\ appState.currentView = "projects"
    /\ authCount > 0
    /\ mounted = {"AuthForm"}

\* C8: once getSession() has resolved and every notification the backend
\* has emitted is delivered, the stored user is the user of the backend's
\* latest session state.
C8_LatestSessionWins ==
    (sessionQuery.pc = "done" /\ authEvents = <<>>) => appState.user = authSession

\* C9: currentView, selectedProjectId and selectedPageId change only in
\* steps that call navigateToView: the session query, the notifications
\* and the backend operations of the screens leave them alone otherwise.
C9_OnlyNavigateToView ==
    [][(\/ appState'.currentView # appState.currentView
        \/ appState'.selectedProjectId # appState.selectedProjectId
        \/ appState'.selectedPageId # appState.selectedPageId)
          => navTick' # navTick]_vars

\* two notifications have been delivered while a page was open in the editor
C9_Witness ==
    /\ authCount >= 2 /\ authEvents = <<>>
    /\ appState.currentView = "editor"
    /\ Truthy(appState.selectedProjectId)
    /\ Truthy(appState.selectedPageId)
    /\ Truthy(appState.user)

\* ------------------------------------------------------------------------
\* The navigation calls of the screens
\* ------------------------------------------------------------------------
\* C11: the navigation state starts as dashboard with no project and no
\* page selected, and whatever Dashboard, Sidebar, ProjectManager and
\* PageEditor call navigateToView with, currentView is one of the six views,
\* so renderView never takes its default branch.
C11_ViewsClosed ==
    /\ appState.currentView \in Views
    /\ ~Truthy(appState.user)
          => /\ appState.currentView = "dashboard"
             /\ appState.selectedProjectId = Null
             /\ appState.selectedPageId = Null

\* Settings has been opened after a page of a project
C11_Witness ==
    /\ appState.currentView = "settings"
    /\ Truthy(appState.selectedProjectId)
    /\ Truthy(appState.selectedPageId)
    /\ navTick

\* C12: whatever the screens call navigateToView with, a page is selected
\* only if a project is selected, and the view is the editor only if a
\* project is selected.
C12_PageNeedsProject ==
    /\ Truthy(appState.selectedPageId) => Truthy(appState.selectedProjectId)
    /\ appState.currentView = "editor" => Truthy(appState.selectedProjectId)

\* the editor is open on a new project that has no page selected yet
C12_Witness ==
    /\ appState.currentView = "editor"
    /\ appState.selectedProjectId = ProjectId(2)
    /\ ~Truthy(appState.selectedPageId)
    /\ lastOp.op = "createProject"

\* C13: when the editor is shown with no page selected and the page fetch
\* of the selected project answers with a non-empty list, the editor makes a
\* page of the lowest order_index its current page, fills the edit buffer
\* from it and calls navigateToView('editor', projectId, page.id): the page
\* is selected and the selected project is the same as before.
C13_FirstPageSelected ==
    [][\A i \in Slots :
          (/\ LoadProjectPages(i, TRUE)
           /\ ~reqs[i].orphan
           /\ reqs[i].projectId = appState.selectedProjectId
           /\ ~Truthy(appState.selectedPageId)
           /\ PagesOf(dbPages, reqs[i].projectId) # {})
            => /\ ed'.currentPage \in PagesOf(dbPages, reqs[i].projectId)
               /\ \A g \in PagesOf(dbPages, reqs[i].projectId) :
                     ed'.currentPage.order_index <= g.order_index
               /\ ed'.pageData = FromPage(ed'.currentPage)
               /\ EdScreen' = "editing"
               /\ navTick' # navTick
               /\ appState'.currentView = "editor"
               /\ appState'.selectedPageId = ed'.currentPage.id
               /\ appState'.selectedProjectId = appState.selectedProjectId]_vars

\* the editor has opened a project of two pages on its first page
C13_Witness ==
    /\ lastOp = [op |-> "loadProject", result |-> "success"]
    /\ Len(ed.pages) = 2
    /\ ed.currentPage = InitialPage(1)
    /\ ed.pageData = FromPage(InitialPage(1))
    /\ appState.selectedPageId = PageId(1)
    /\ navTick

\* ------------------------------------------------------------------------
\* Failures
\* ------------------------------------------------------------------------
\* C14: no operation leaves a partial write: when duplicateProject ends in
\* its catch block because the select or the insert of the pages failed, no
\* row that this call of duplicateProject inserted is in the backend.
C14_NoPartialWrite ==
    [][\A i \in Slots :
          (DuplicateSelectPages(i, FALSE) \/ DuplicateInsertPages(i, FALSE))
              => /\ lastOp' = [op |-> "duplicateProject", result |-> "error"]
                 /\ reqs[i].made.projects \cap dbProjects' = {}]_vars

\* C15: a failed backend call leaves the local data of the screen as it was
\* when the operation started: when a loadProject of the editor on screen
\* ends in its catch block, the loaded project is the one the editor held
\* when that loadProject was started.
C15_FailureKeepsLocalState ==
    [][\A i \in Slots :
          ((LoadProjectProject(i, FALSE) \/ LoadProjectPages(i, FALSE)) /\ ~reqs[i].orphan)
              => /\ lastOp' = [op |-> "loadProject", result |-> "error"]
                 /\ ed'.project = reqs[i].projectAtStart]_vars

\* C16: every failed backend call gives the user an error notification:
\* when loadDashboardData ends in its catch block, an error toast is shown.
C16_FailureNotifies ==
    [][(LoadDashboardProjects(FALSE) \/ \E n \in 0..MaxEvents : LoadDashboardAnalytics(FALSE, n))
          => /\ lastOp' = [op |-> "loadDashboardData", result |-> "error"]
             /\ toast'.kind = "error"]_vars

\* C17: client-side validation: createNewPage with an empty or
\* whitespace-only title sends no request, changes no record and no local
\* list, and surfaces a notification to the user.
C17_BlankTitleNotified ==
    [][(CreateNewPage /\ Trim(ed.newPageTitle) = Empty)
          => /\ reqs' = reqs
             /\ UNCHANGED dbVars
             /\ ed'.pages = ed.pages
             /\ toast'.kind = "error"]_vars

\* C18: when the editor's fetch of the selected project fails, the editor
\* on screen renders the not-found screen once the fetch has answered, and
\* when the selected page id matches no page of the loaded project it
\* renders the not-found screen as well, never a loading indicator.
C18_NotFoundScreen ==
    [][/\ \A i \in Slots :
             (/\ LoadProjectProject(i, FALSE) \/ LoadProjectPages(i, FALSE)
              /\ ~reqs[i].orphan
              /\ reqs[i].projectId = appState.selectedProjectId)
                 => EdScreen' = "notFound"
       /\ \A i \in Slots :
             (/\ LoadProjectPages(i, TRUE)
              /\ ~reqs[i].orphan
              /\ reqs[i].projectId = appState.selectedProjectId
              /\ Truthy(appState.selectedPageId)
              /\ \A g \in PagesOf(dbPages, reqs[i].projectId) : g.id # appState.selectedPageId)
                 => EdScreen' = "notFound"]_vars

\* ------------------------------------------------------------------------
\* Dashboard: the statistics
\* ------------------------------------------------------------------------
\* the projects of the backend that fewer than DashLimit others are newer than
RecentProjects ==
    {p \in dbProjects :
        Cardinality({q \in dbProjects : q.created_at > p.created_at}) < DashLimit}

\* C19: after a successful load the Dashboard lists the at most 5 most
\* recently updated projects; totalProjects is their number, publishedSites
\* the number of the published ones among them, totalViews the number of
\* analytics events and activeUsers the floor of 0.4 * totalViews; so
\* publishedSites <= totalProjects <= 5 and activeUsers <= totalViews.
C19_DashboardStats ==
    (dash.pc = "done" /\ lastOp.op = "loadDashboardData" /\ lastOp.result = "success")
        => /\ {dash.projects[k] : k \in 1..Len(dash.projects)} = RecentProjects
           /\ Len(dash.projects) = Cardinality(RecentProjects)
           /\ dash.stats.totalProjects = Cardinality(RecentProjects)
           /\ dash.stats.publishedSites = Cardinality({p \in RecentProjects : p.is_published})
           /\ dash.stats.totalViews = lastOp.events
           /\ 10 * dash.stats.activeUsers <= 4 * lastOp.events
           /\ 4 * lastOp.events < 10 * (dash.stats.activeUsers + 1)
           /\ dash.stats.publishedSites <= dash.stats.totalProjects
           /\ dash.stats.totalProjects <= 5
           /\ dash.stats.activeUsers <= dash.stats.totalViews
           /\ ~dash.loading

\* six projects, four of them published and the oldest among these, and
\* four analytics events: the Dashboard counts 5, 3, 4 and 1
C19_Witness ==
    /\ dash.pc = "done"
    /\ Cardinality(dbProjects) = 6
    /\ Cardinality({p \in dbProjects : p.is_published}) = 4
    /\ DashProject(1, TRUE) \in dbProjects
    /\ dash.stats = [totalProjects |-> 5, publishedSites |-> 3, totalViews |-> 4, activeUsers |-> 1]

\* ------------------------------------------------------------------------
\* Sidebar: the page map
\* ------------------------------------------------------------------------
\* C20: the page map of the Sidebar is written in one step, after every
\* page fetch has answered with success, in whatever order they answer: as
\* long as a fetch is awaited and after a failure the map is what it was at
\* mount, empty; once written it holds exactly one entry for each fetched
\* project, with the pages of that project in ascending order_index.
C20_PageMapJoined ==
    "Sidebar" \in mounted
        => /\ sb.pc \in {"projects", "pages", "failed"} => sb.projectPages = {}
           /\ (sb.pc = "done" /\ sb.projects # <<>>)
                 => /\ {e.projectId : e \in sb.projectPages} = SbProjectIds
                    /\ Cardinality(sb.projectPages) = Len(sb.projects)
                    /\ \A e \in sb.projectPages :
                          /\ {e.pages[k] : k \in 1..Len(e.pages)} = PagesOf(dbPages, e.projectId)
                          /\ Len(e.pages) = Cardinality(PagesOf(dbPages, e.projectId))
                          /\ \A j, k \in 1..Len(e.pages) :
                                j < k => e.pages[j].order_index <= e.pages[k].order_index

\* two projects, the older one with two pages: the fetch of the newer
\* project was the last to answer
C20_Witness ==
    /\ sb.pc = "done"
    /\ Len(sb.projects) = 2
    /\ lastOp = [op |-> "sidebarLoadProjects", result |-> "success"]
    /\ \E e \in sb.projectPages : e.projectId = ProjectId(1) /\ Len(e.pages) = 2
    /\ \E e \in sb.projectPages : e.projectId = ProjectId(2) /\ Len(e.pages) = 1

\* ------------------------------------------------------------------------
\* MarkdownEditor: the toolbar
\* ------------------------------------------------------------------------
\* C21: insertMarkdown(before, after) on content with the selection
\* [start, end) gives content[0, start) + before + content[start, end) +
\* after + content[end, len): the text outside the selection is unchanged,
\* the length grows by len(before) + len(after), and the selection its timer
\* restores, [start + len(before), start + len(before) + (end - start)),
\* covers exactly the text that was selected.
C21_InsertMarkdown ==
    [][/\ (\E b \in ToolbarButtons : InsertMarkdown(b))
          => LET old == ed.pageData.content
                 new == ed'.pageData.content
                 start == textarea.selectionStart
                 end == textarea.selectionEnd
                 lb == Len(lastOp'.before)
                 la == Len(lastOp'.after)
                 sel == Head(textarea'.pending)
             IN  /\ lastOp'.op = "insertMarkdown"
                 /\ Len(new) = Len(old) + lb + la
                 /\ SubSeq(new, 1, start) = SubSeq(old, 1, start)
                 /\ SubSeq(new, start + 1, start + lb) = lastOp'.before
                 /\ SubSeq(new, start + lb + 1, end + lb) = SubSeq(old, start + 1, end)
                 /\ SubSeq(new, end + lb + 1, end + lb + la) = lastOp'.after
                 /\ SubSeq(new, end + lb + la + 1, Len(new)) = SubSeq(old, end + 1, Len(old))
                 /\ textarea.pending = <<>>
                       => /\ sel.start = start + lb
                          /\ sel.end = start + lb + (end - start)
                          /\ SubSeq(new, sel.start + 1, sel.end) = SubSeq(old, start + 1, end)
       /\ (RestoreSelection /\ Len(textarea.pending) = 1 /\ lastOp.op = "insertMarkdown")
          => /\ textarea'.selectionStart = lastOp.start + Len(lastOp.before)
             /\ textarea'.selectionEnd = lastOp.end + Len(lastOp.before)
             /\ SubSeq(ed'.pageData.content, textarea'.selectionStart + 1, textarea'.selectionEnd)
                    = SubSeq(lastOp.content, lastOp.start + 1, lastOp.end)]_vars

\* Bold on the b of aba: the content is a**b**a and the b is selected again
C21_Witness ==
    /\ lastOp.op = "insertMarkdown"
    /\ lastOp.content = "aba"
    /\ lastOp.start = 1 /\ lastOp.end = 2
    /\ ed.pageData.content = "a**b**a"
    /\ textarea = [selectionStart |-> 3, selectionEnd |-> 4, pending |-> <<>>]

\* ------------------------------------------------------------------------
\* Loading states
\* ------------------------------------------------------------------------
\* a loadProject of the editor on screen is awaited
LoadProjectPending ==
    \E i \in 1..Len(reqs) : reqs[i].op = "loadProject" /\ ~reqs[i].orphan

\* a loadProjects of the ProjectManager on screen is awaited
LoadProjectsPending ==
    \E i \in 1..Len(reqs) : reqs[i].op = "loadProjects" /\ ~reqs[i].orphan

\* C22: every fetch a screen starts at its mount ends the loading state:
\* once it has answered, with success or with failure, loading is false
\* and the screen shows a view that is no loading indicator; this is so
\* for Dashboard, ProjectManager and PageEditor with a selected project.
C22_LoadingEnds ==
    /\ ("Dashboard" \in mounted /\ dash.pc \in {"done", "failed"}) => ~dash.loading
    /\ ("ProjectManager" \in mounted /\ ~LoadProjectsPending) => ~pm.loading
    /\ ("PageEditor" \in mounted /\ Truthy(appState.selectedProjectId) /\ ~LoadProjectPending)
          => /\ ~ed.loading
             /\ EdScreen \in {"notFound", "noPages", "editing"}

\* C23: whenever the editor is the current view for a stored project that
\* has a page, and every fetch is answered with success, the editor comes
\* to display a page of that project (or the user leaves the editor), also
\* when selectedPageId still holds the id of a page of another project.
C23_EditorShowsPage ==
    (/\ appState.currentView = "editor"
     /\ \E p \in dbProjects : p.id = appState.selectedProjectId
     /\ PagesOf(dbPages, appState.selectedProjectId) # {})
        ~> (\/ appState.currentView # "editor"
            \/ /\ "PageEditor" \in mounted
               /\ EdScreen = "editing"
               /\ ed.currentPage.project_id = appState.selectedProjectId)

\* ------------------------------------------------------------------------
\* PageEditor: the page and the project on screen
\* ------------------------------------------------------------------------
\* C24: whenever the editor shows its editing screen and awaits no fetch,
\* the current page, which handleSave updates and deletePage deletes, is a
\* page of the project on screen: currentPage.project_id = project.id =
\* selectedProjectId, and currentPage is in the page list of the editor.
C24_CurrentPageOfProject ==
    (EdEditing /\ ~LoadProjectPending)
        => /\ ed.currentPage.project_id = ed.project.id
           /\ ed.project.id = appState.selectedProjectId
           /\ \E k \in 1..Len(ed.pages) : ed.pages[k] = ed.currentPage

\* C25: when the selected project changes while a fetch of the mounted
\* editor is awaited, then once every fetch has answered, in whichever
\* order, the loaded project and the page list are those of the selected
\* project.
C25_LatestProjectWins ==
    ("PageEditor" \in mounted /\ ~LoadProjectPending)
        => /\ ed.project.id = appState.selectedProjectId
           /\ \A k \in 1..Len(ed.pages) : ed.pages[k].project_id = appState.selectedProjectId

\* ------------------------------------------------------------------------
\* PageEditor: the edit buffer
\* ------------------------------------------------------------------------
\* C26: edits made while a save is awaited survive it: when the save of the
\* current page succeeds and the edit buffer differs from the values that
\* were sent, the buffer is the same after the save as before it.
C26_EditsSurviveSave ==
    [][\A i \in Slots :
          (/\ HandleSaveResolve(i, TRUE)
           /\ ~reqs[i].orphan
           /\ reqs[i].pageId = ed.currentPage.id
           /\ ed.pageData # reqs[i].pageData)
              => ed'.pageData = ed.pageData]_vars

\* C27: a session-change notification that keeps the user authenticated
\* leaves the selected page, the current page and the edit buffer as they
\* were.
C27_SessionKeepsBuffer ==
    [][(/\ AuthStateChange
        /\ Truthy(appState.user)
        /\ Truthy(Head(authEvents))
        /\ EdEditing)
          => /\ appState'.selectedPageId = appState.selectedPageId
             /\ ed'.currentPage = ed.currentPage
             /\ ed'.pageData = ed.pageData]_vars

\* ------------------------------------------------------------------------
\* PageEditor: the page list and the backend
\* ------------------------------------------------------------------------
\* the ids of the pages the backend holds for project p
BackendPageIds(p) == {g.id : g \in {x \in dbPages : x.project_id = p}}

\* the ids of the pages of the editor's list
LocalPageIds == {ed.pages[k].id : k \in 1..Len(ed.pages)}

\* C28: deleting pages through the editor never empties a project, also when
\* a second deletePage is issued before the first has been answered, and once
\* every request has been answered the editor's page list holds exactly the
\* pages the backend holds for the project.
C28_DeletesKeepAPage ==
    /\ \A p \in dbProjects : BackendPageIds(p.id) # {}
    /\ (EdEditing /\ reqs = <<>>) => LocalPageIds = BackendPageIds(ed.project.id)

\* C29: within one project the pages of the backend have pairwise distinct
\* order_index values, whatever pages were created and deleted.
C29_DistinctOrderIndex ==
    \A g \in dbPages, h \in dbPages :
        (g.project_id = h.project_id /\ g.id # h.id) => g.order_index # h.order_index

\* the save requests of the mounted editor that have not been answered
SavesInFlight == {i \in 1..Len(reqs) : reqs[i].op = "save" /\ ~reqs[i].orphan}

\* C30: at most one save request of the editor is awaited at any time, and
\* the saving flag is true exactly while one is awaited.
C30_OneSaveInFlight ==
    "PageEditor" \in mounted =>
        /\ Cardinality(SavesInFlight) <= 1
        /\ ed.saving <=> SavesInFlight # {}

\* ------------------------------------------------------------------------
\* The navigation contract on its own: any caller, any arguments
\* ------------------------------------------------------------------------
ArgProjects == NavProjects \cup {Undefined, Empty}
ArgPages == NavPages \cup {Undefined, Empty}

InitNav ==
    /\ appState \in {[InitialAppState EXCEPT !.user = u] : u \in Users}
    /\ navTick = FALSE
    /\ lastCall = NoCall
    /\ before = appState
    /\ given = [projectId |-> Null, pageId |-> Null]
    /\ named = [projectId |-> Null, pageId |-> Null]
    /\ repeated = FALSE
    /\ authSession = appState.user
    /\ sessionQuery = [pc |-> "done", session |-> appState.user]
    /\ authEvents = <<>>
    /\ authCount = 0
    /\ dbProjects = {}
    /\ dbPages = {}
    /\ nextProject = 0
    /\ nextPage = 0
    /\ mounted = Render(appState)
    /\ pm = InitialPM
    /\ ed = InitialEd
    /\ dash = InitialDash
    /\ sb = InitialSb
    /\ reqs = <<>>
    /\ timers = <<>>
    /\ textarea = NoSelection
    /\ toast = NoToast
    /\ lastOp = NoOp
    /\ steps = NotCounted

NavCall(view, projectId, pageId) ==
    /\ navigateToView(view, projectId, pageId)
    /\ lastCall' = [view |-> view, projectId |-> projectId, pageId |-> pageId]
    /\ before' = appState
    /\ given' = [projectId |-> IF projectId # Undefined THEN projectId ELSE given.projectId,
                 pageId |-> IF pageId # Undefined THEN pageId ELSE given.pageId]
    /\ named' = [projectId |-> IF projectId \notin {Undefined, Empty} THEN projectId ELSE named.projectId,
                 pageId |-> IF pageId \notin {Undefined, Empty} THEN pageId ELSE named.pageId]
    /\ repeated' = (lastCall = [view |-> view, projectId |-> projectId, pageId |-> pageId])
    /\ Step
    /\ UNCHANGED <<authVars, dbVars, uiVars>>

NextNav ==
    \E view \in Views, projectId \in ArgProjects, pageId \in ArgPages :
        NavCall(view, projectId, pageId)

SpecNav == InitNav /\ [][NextNav]_vars

\* ------------------------------------------------------------------------
\* Claims about navigateToView
\* ------------------------------------------------------------------------
Called == lastCall # NoCall

\* C1 (as stated): after any sequence of navigateToView calls, currentView is
\* the view of the last call and selectedProjectId / selectedPageId are the
\* most recently passed non-absent projectId / pageId (the initial absent
\* value if none was passed).
C1_MergeRetainNonAbsent ==
    /\ Called => appState.currentView = lastCall.view
    /\ appState.selectedProjectId = given.projectId
    /\ appState.selectedPageId = given.pageId

\* C1 (amended): after any sequence of navigateToView calls, currentView is
\* the view of the last call and selectedProjectId / selectedPageId are the
\* most recently passed projectId / pageId that was neither absent nor the
\* empty string (the initial absent value if none was passed).
C1_MergeRetainNonEmpty ==
    /\ Called => appState.currentView = lastCall.view
    /\ appState.selectedProjectId = named.projectId
    /\ appState.selectedPageId = named.pageId

\* an empty projectId was passed after a real one, and the real one is kept
C1_Witness ==
    /\ Called
    /\ lastCall.projectId = Empty
    /\ lastCall.pageId \in NavPages
    /\ before.selectedProjectId \in NavProjects
    /\ before.selectedPageId \in NavPages \ {lastCall.pageId}
    /\ given.projectId = Empty

\* C2: a call with projectId and pageId both absent changes currentView only,
\* for every view; so editor(p1), dashboard, editor ends in the editor with
\* p1 still selected and the page selection untouched.
C2_ViewOnlyCall ==
    (Called /\ lastCall.projectId = Undefined /\ lastCall.pageId = Undefined)
        => /\ appState = [before EXCEPT !.currentView = lastCall.view]
           /\ (before.currentView = "dashboard" /\ before.selectedProjectId = ProjectId(1)
                    /\ lastCall.view = "editor")
                => /\ appState.currentView = "editor"
                   /\ appState.selectedProjectId = ProjectId(1)
                   /\ appState.selectedPageId = before.selectedPageId

\* back in the editor from the dashboard, p1 selected before and after
C2_Witness ==
    /\ lastCall = [view |-> "editor", projectId |-> Undefined, pageId |-> Undefined]
    /\ before.currentView = "dashboard"
    /\ before.selectedProjectId = ProjectId(1)
    /\ appState.selectedProjectId = ProjectId(1)

\* C10: navigateToView is idempotent: a call that repeats the arguments of
\* the call just before it leaves the navigation state as the first of the
\* two left it, for every view and every pair of optional arguments.
C10_Idempotent ==
    (Called /\ repeated) => appState = before

\* the same call, with a project and a page, was made twice in a row
C10_Witness ==
    /\ repeated
    /\ lastCall.projectId \in NavProjects
    /\ lastCall.pageId = Undefined
    /\ lastCall.view = "dashboard"

====
